---- MODULE Spec2Model ----
(***************************************************************************)
(* A model of the data-freshness core of src/data_fetcher.py: the session  *)
(* gate (_is_trading_time), the whole-market snapshot provider             *)
(* (_get_market_spot_data) with its session-aware TTL and stale fallback,  *)
(* the keyed expiring cache (_get_from_cache / _save_to_cache) and the     *)
(* lookups built on them (get_stock_price, get_stock_intraday,             *)
(* get_stock_indicators, get_stock_info, get_stock_historical), and of the  *)
(* ranking jobs: the batch of src/generate_rps.py with its worker pool,    *)
(* the service of src/rps_service/rps_app.py and src/debug_rps.py.         *)
(*                                                                         *)
(* Time is in whole seconds.  Instant 0 is 00:00:00 of a Thursday, so that *)
(* a few days cover a working day, a calendar holiday and a weekend.       *)
(* A stock code is the sequence of its characters.  A Python value is a    *)
(* record tagged with its type in field t: None, a raised exception, a     *)
(* DataFrame, a dict (its keys are the other fields), a list (items).      *)
(***************************************************************************)
EXTENDS Integers, Sequences, FiniteSets, TLC

VARIABLES
    now,               \* datetime.now(), seconds since instant 0
    akshare,           \* AKSHARE_AVAILABLE        (data_fetcher.py:11-15)
    calendar,          \* the holiday calendar: "ok", "raises" or "absent"
    stock_list,        \* self.stock_list
    stock_df,          \* self.stock_df
    market_spot_data,  \* self.market_spot_data
    market_spot_time,  \* self.market_spot_time
    cache,             \* self.cache
    rps_data,          \* self.rps_data
    rps_top_data,      \* self.rps_top_data
    rps_cache_time,    \* self.rps_cache_time
    callers,           \* concurrent callers of _get_market_spot_data
    last,              \* the call that returned at the current instant
    daily,             \* what ak.stock_zh_a_hist answers, per symbol
    df_stocks,         \* generate_rps.main: df_stocks
    futures,           \* generate_rps.main: futures, per symbol
    results,           \* generate_rps.main: results
    df_res,            \* generate_rps.main: df_res, one record per row
    rps_file,          \* the document in output/latest_rps.json
    top_file,          \* the document in output/top_rps.json
    job_pc,            \* generate_rps.main: its position
    RPS_DATA,          \* rps_app: the global RPS_DATA
    service_results,   \* rps_app.calculate_rps_all: results
    rps_debug,         \* debug_rps.calculate_debug_rps: rps_data
    writer,            \* update_rps_rankings: its position and its results
    chip,              \* get_stock_indicators: the loop over the chip buckets
    CACHE_FILE,        \* rps_app: what the file rps_cache.joblib holds
    runs               \* rps_app: the runs of calculate_rps_all under way

\* The run of update_rps_rankings, the loop over the chip buckets, and the
\* disk cache and the runs of the standalone ranking service.
sideVars == <<writer, chip, CACHE_FILE, runs>>

\* The state of the ranking jobs (generate_rps, rps_app, debug_rps) and of
\* the runs above.
jobVars == <<daily, df_stocks, futures, results, df_res, rps_file, top_file,
             job_pc, RPS_DATA, service_results, rps_debug, sideVars>>

vars == <<now, akshare, calendar, stock_list, stock_df, market_spot_data,
          market_spot_time, cache, rps_data, rps_top_data, rps_cache_time,
          callers, last, jobVars>>

(***************************************************************************)
(* Python values.                                                          *)
(***************************************************************************)
None == [t |-> "None"]
Raise == [t |-> "raise"]
EmptyDict == [t |-> "dict"]
List(items) == [t |-> "list", items |-> items]
Num(v) == [t |-> "num", v |-> v]

\* bool(v) for the values the code tests with `if v:`
Truthy(v) ==
    /\ v.t # "None"
    /\ v.t = "list" => v.items # << >>
    /\ v.t = "dict" => DOMAIN v # {"t"}

(***************************************************************************)
(* Bounds of the model and constants of the program.                       *)
(***************************************************************************)
MaxDay == 2
MaxRound == 0
NumCallers == 2

TRADING_TTL == 60
CLOSED_TTL == 72000
CACHE_DURATION == 300
MIN_HISTORY == 120

DaySeconds == 24 * 3600

(***************************************************************************)
(* Stock codes.                                                            *)
(***************************************************************************)
C600000 == <<"6", "0", "0", "0", "0", "0">>
C600519 == <<"6", "0", "0", "5", "1", "9">>
C600036 == <<"6", "0", "0", "0", "3", "6">>
C601398 == <<"6", "0", "1", "3", "9", "8">>
C601939 == <<"6", "0", "1", "9", "3", "9">>
C000858 == <<"0", "0", "0", "8", "5", "8">>
C000651 == <<"0", "0", "0", "6", "5", "1">>
C000001 == <<"0", "0", "0", "0", "0", "1">>
C002230 == <<"0", "0", "2", "2", "3", "0">>
C300750 == <<"3", "0", "0", "7", "5", "0">>
C830799 == <<"8", "3", "0", "7", "9", "9">>
C999999 == <<"9", "9", "9", "9", "9", "9">>

\* code.startswith(c)
StartsWith(code, c) == Len(code) >= 1 /\ code[1] = c

\* "sh" if code.startswith('6') else ("bj" if code.startswith(('4','8')) else "sz")
MarketOf(code) ==
    IF StartsWith(code, "6") THEN <<"s", "h">>
    ELSE IF StartsWith(code, "4") \/ StartsWith(code, "8") THEN <<"b", "j">>
    ELSE <<"s", "z">>

\* code[-6:] if len(code) > 6 else code
PureCode(code) ==
    IF Len(code) > 6 THEN SubSeq(code, Len(code) - 5, Len(code)) ELSE code

\* f"{market}{code}"
Prefixed(code) == MarketOf(code) \o code

\* The ten hard-coded stocks of _load_fallback_stocks.
FallbackCodes ==
    {C600000, C600519, C600036, C601398, C601939,
     C000858, C000651, C000001, C002230, C300750}

FallbackStocks ==
    [c \in FallbackCodes |-> [name |-> c, market |-> MarketOf(c)]]

(***************************************************************************)
(* The upstream full-market table (ak.stock_zh_a_spot_em).  A table is     *)
(* identified by the instant of the request that produced it and holds one *)
(* row per code; the cell read for a code is the pair <<id, code>>.        *)
(***************************************************************************)
RowSets == {{C600000, C000001}, {C600519, C830799}}

Table(id, rows) == [t |-> "df", id |-> id, rows |-> rows]

\* What one upstream request made at instant ts can do.
SpotOutcomes(ts) ==
    {Raise, None, Table(ts, {})} \cup {Table(ts, r) : r \in RowSets}

\* df.empty
DfEmpty(df) == df.rows = {}

(***************************************************************************)
(* Session gate: _is_trading_time.                                         *)
(***************************************************************************)
DayOf(t) == t \div DaySeconds

\* now.weekday(): Monday is 0, Sunday is 6; instant 0 falls on a Thursday.
Weekday(t) == (DayOf(t) + 3) % 7

\* now.time() as <<hour, minute, second>>
TimeOf(t) ==
    LET s == t % DaySeconds
    IN  <<s \div 3600, (s % 3600) \div 60, s % 60>>

\* datetime.strptime("HH:MM", "%H:%M").time()
ParseHM(h, m) == <<h, m, 0>>

\* a <= b on datetime.time values
TimeLE(a, b) ==
    \/ a[1] < b[1]
    \/ a[1] = b[1] /\ a[2] < b[2]
    \/ a[1] = b[1] /\ a[2] = b[2] /\ a[3] <= b[3]

\* The days the holiday calendar lists as statutory holidays.
HolidayDays == {1}

\* chinese_calendar.is_holiday(now): a statutory holiday or a weekend day.
IsHoliday(t) == DayOf(t) \in HolidayDays \/ Weekday(t) >= 5

\* Variant: the two windows taken without their closing instants.
IsTradingTime_HalfOpen(t, cal) ==
    IF Weekday(t) >= 5 THEN FALSE
    ELSE IF cal = "ok" /\ IsHoliday(t) THEN FALSE
    ELSE LET now_time == TimeOf(t)
             t1_start == ParseHM(9, 15)
             t1_end   == ParseHM(11, 30)
             t2_start == ParseHM(13, 0)
             t2_end   == ParseHM(15, 0)
         IN  \/ TimeLE(t1_start, now_time) /\ ~TimeLE(t1_end, now_time)
             \/ TimeLE(t2_start, now_time) /\ ~TimeLE(t2_end, now_time)

\* Variant: a calendar that fails to answer closes the gate.
IsTradingTime_FailClosed(t, cal) ==
    IF Weekday(t) >= 5 THEN FALSE
    ELSE IF cal = "raises" THEN FALSE
    ELSE IF cal = "ok" /\ IsHoliday(t) THEN FALSE
    ELSE LET now_time == TimeOf(t)
             t1_start == ParseHM(9, 15)
             t1_end   == ParseHM(11, 30)
             t2_start == ParseHM(13, 0)
             t2_end   == ParseHM(15, 0)
         IN  \/ TimeLE(t1_start, now_time) /\ TimeLE(now_time, t1_end)
             \/ TimeLE(t2_start, now_time) /\ TimeLE(now_time, t2_end)

IsTradingTime(t, cal) ==
    IF Weekday(t) >= 5 THEN FALSE
    ELSE IF cal = "ok" /\ IsHoliday(t) THEN FALSE
    ELSE LET now_time == TimeOf(t)
             t1_start == ParseHM(9, 15)
             t1_end   == ParseHM(11, 30)
             t2_start == ParseHM(13, 0)
             t2_end   == ParseHM(15, 0)
         IN  \/ TimeLE(t1_start, now_time) /\ TimeLE(now_time, t1_end)
             \/ TimeLE(t2_start, now_time) /\ TimeLE(now_time, t2_end)

(***************************************************************************)
(* The instants the clock visits: on each day, the seconds around the      *)
(* edges of the two trading windows and around the two TTLs.               *)
(***************************************************************************)
ClockTimes ==
    {9 * 3600 + 14 * 60 + 59,   \* 09:14:59
     9 * 3600 + 15 * 60,        \* 09:15:00
     9 * 3600 + 15 * 60 + 59,   \* 09:15:59
     9 * 3600 + 16 * 60,        \* 09:16:00
     11 * 3600,                 \* 11:00:00
     11 * 3600 + 1,             \* 11:00:01
     11 * 3600 + 30 * 60,       \* 11:30:00
     11 * 3600 + 30 * 60 + 1,   \* 11:30:01
     12 * 3600 + 59 * 60 + 59,  \* 12:59:59
     13 * 3600,                 \* 13:00:00
     15 * 3600,                 \* 15:00:00
     15 * 3600 + 1}             \* 15:00:01

Instants == {d * DaySeconds + s : d \in 0..MaxDay, s \in ClockTimes}

(***************************************************************************)
(* Whole-market snapshot provider: _get_market_spot_data.                  *)
(* SpotCallFrom(data, time, df, ts, out) is the effect of one call made at *)
(* instant ts on a fetcher holding market_spot_data = data,                *)
(* market_spot_time = time and stock_df = df, when the upstream request,   *)
(* if the call makes one, does `out`.  The fields data/time/df are the new *)
(* values of the three attributes, ret is the value returned and fetched   *)
(* tells whether the upstream was asked.                                   *)
(***************************************************************************)
\* Variant: a failed refresh returns None instead of the stored snapshot.
SpotCallFrom_NoFallback(data, time, df, ts, out) ==
    LET is_trading     == IsTradingTime(ts, calendar)
        cache_duration == IF is_trading THEN TRADING_TTL ELSE CLOSED_TTL
        now_ts         == ts
        keep(r, f)     == [data |-> data, time |-> time, df |-> df,
                           ret |-> r, fetched |-> f]
    IN  IF data # None /\ now_ts - time < cache_duration
        THEN keep(data, FALSE)
        ELSE IF ~akshare THEN keep(None, FALSE)
        ELSE IF out = Raise THEN keep(None, TRUE)
        ELSE IF out # None /\ ~DfEmpty(out) THEN
            [data |-> out, time |-> now_ts, df |-> out, ret |-> out,
             fetched |-> TRUE]
        ELSE keep(None, TRUE)

\* Variant: a snapshot whose age equals the TTL still counts as fresh.
SpotCallFrom_InclusiveTtl(data, time, df, ts, out) ==
    LET is_trading     == IsTradingTime(ts, calendar)
        cache_duration == IF is_trading THEN TRADING_TTL ELSE CLOSED_TTL
        now_ts         == ts
        keep(f)        == [data |-> data, time |-> time, df |-> df,
                           ret |-> data, fetched |-> f]
    IN  IF data # None /\ now_ts - time <= cache_duration
        THEN keep(FALSE)
        ELSE IF ~akshare THEN
            [data |-> data, time |-> time, df |-> df, ret |-> None,
             fetched |-> FALSE]
        ELSE IF out = Raise THEN keep(TRUE)
        ELSE IF out # None /\ ~DfEmpty(out) THEN
            [data |-> out, time |-> now_ts, df |-> out, ret |-> out,
             fetched |-> TRUE]
        ELSE keep(TRUE)

\* Variant: a failed refresh stamps the stored snapshot with the instant of
\* the failed attempt.
SpotCallFrom_FailureStamped(data, time, df, ts, out) ==
    LET is_trading     == IsTradingTime(ts, calendar)
        cache_duration == IF is_trading THEN TRADING_TTL ELSE CLOSED_TTL
        now_ts         == ts
        keep(f)        == [data |-> data, time |-> IF f THEN now_ts ELSE time,
                           df |-> df, ret |-> data, fetched |-> f]
    IN  IF data # None /\ now_ts - time < cache_duration
        THEN keep(FALSE)
        ELSE IF ~akshare THEN
            [data |-> data, time |-> time, df |-> df, ret |-> None,
             fetched |-> FALSE]
        ELSE IF out = Raise THEN keep(TRUE)
        ELSE IF out # None /\ ~DfEmpty(out) THEN
            [data |-> out, time |-> now_ts, df |-> out, ret |-> out,
             fetched |-> TRUE]
        ELSE keep(TRUE)

SpotCallFrom(data, time, df, ts, out) ==
    LET is_trading     == IsTradingTime(ts, calendar)
        cache_duration == IF is_trading THEN TRADING_TTL ELSE CLOSED_TTL
        now_ts         == ts
        keep(f)        == [data |-> data, time |-> time, df |-> df,
                           ret |-> data, fetched |-> f]
    IN  IF data # None /\ now_ts - time < cache_duration
        THEN keep(FALSE)
        ELSE IF ~akshare THEN
            [data |-> data, time |-> time, df |-> df, ret |-> None,
             fetched |-> FALSE]
        ELSE IF out = Raise THEN keep(TRUE)
        ELSE IF out # None /\ ~DfEmpty(out) THEN
            [data |-> out, time |-> now_ts, df |-> out, ret |-> out,
             fetched |-> TRUE]
        ELSE keep(TRUE)

SpotCall(out) ==
    SpotCallFrom(market_spot_data, market_spot_time, stock_df, now, out)

(***************************************************************************)
(* Symbol universe: _load_stock_list and _load_fallback_stocks.            *)
(***************************************************************************)
\* The entries the loop over the rows of df writes: every code under its
\* bare and its market-prefixed key.
StockEntries(df) ==
    LET keys == df.rows \cup {Prefixed(c) : c \in df.rows}
    IN  [k \in keys |-> [name |-> PureCode(k), market |-> MarketOf(PureCode(k))]]

\* dict `old` after the assignments of `new`
Updated(old, new) ==
    [k \in DOMAIN old \cup DOMAIN new |->
        IF k \in DOMAIN new THEN new[k] ELSE old[k]]

\* _load_stock_list on a fetcher whose stock_list is `list`, given the result
\* `spot` of its _get_market_spot_data call: the new stock_list.
LoadStockListFrom(list, spot) ==
    IF spot.ret = None \/ DfEmpty(spot.ret)
    THEN FallbackStocks
    ELSE Updated(list, StockEntries(spot.ret))

(***************************************************************************)
(* Keyed expiring cache: _get_from_cache and _save_to_cache.  The key      *)
(* f"{code}_{data_type}" is the pair <<code, data_type>>.                  *)
(***************************************************************************)
CacheKey(code, data_type) == <<code, data_type>>

\* Variant: an entry is still served at the instant it expires.
GetFromCache_Inclusive(code, data_type) ==
    LET cache_key == CacheKey(code, data_type)
    IN  IF cache_key \in DOMAIN cache /\ now <= cache[cache_key].expire_at
        THEN cache[cache_key].data
        ELSE None

GetFromCache(code, data_type) ==
    LET cache_key == CacheKey(code, data_type)
    IN  IF cache_key \in DOMAIN cache /\ now < cache[cache_key].expire_at
        THEN cache[cache_key].data
        ELSE None

\* self.cache.get(cache_key), or an entry holding None when there is none
RawEntry(code, data_type) ==
    LET cache_key == CacheKey(code, data_type)
    IN  IF cache_key \in DOMAIN cache THEN cache[cache_key]
        ELSE [data |-> None, expire_at |-> 0]

SaveToCache(code, data, data_type) ==
    LET cache_key == CacheKey(code, data_type)
    IN  [k \in DOMAIN cache \cup {cache_key} |->
            IF k = cache_key
            THEN [data |-> data, expire_at |-> now + CACHE_DURATION]
            ELSE cache[k]]

(***************************************************************************)
(* Ranking lookup: _load_rps_data and get_rps_value.  A source answers     *)
(* with a document or fails: src.ra / src.rt are the remote full and top   *)
(* documents (Raise: the request failed or was not a 200), src.la / src.lt *)
(* the local files (Missing: no such file, Raise: unreadable).             *)
(***************************************************************************)
RPS_CACHE_DURATION == 3600

Missing == [t |-> "missing"]

\* A file between open(path, "w") and the end of json.dump: emptied, or
\* holding the beginning of the new document.
Partial == [t |-> "partial"]

RpsItem(code, r50, r120, r250) ==
    [t |-> "dict", code |-> code, RPS_50 |-> r50, RPS_120 |-> r120,
     RPS_250 |-> r250]

RemoteAll == List(<<RpsItem(C600000, Num(95), Num(91), None)>>)
LocalAll  == List(<<RpsItem(C600000, Num(40), Num(35), Num(30)),
                    RpsItem(C000001, Num(99), Num(98), Num(97))>>)
RemoteTop == [t |-> "dict", top_50 |-> List(<<RpsItem(C600000, Num(95), Num(91), None)>>)]
LocalTop  == [t |-> "dict", top_50 |-> List(<<RpsItem(C000001, Num(99), Num(98), Num(97))>>)]

RpsSources ==
    [ra : {Raise, List(<< >>), RemoteAll},
     la : {Missing, Raise, LocalAll},
     rt : {Raise, RemoteTop},
     lt : {Missing, Raise, LocalTop}]

\* {str(item.get("code")): item for item in data_list}, later items winning
IndexByCode(items) ==
    LET codes == {items[i].code : i \in DOMAIN items}
    IN  [c \in codes |->
            items[CHOOSE i \in DOMAIN items :
                    /\ items[i].code = c
                    /\ \A j \in DOMAIN items : items[j].code = c => j <= i]]

\* Variant: the local files are read first and the remote source is asked
\* for what they lack.
LoadRpsFrom_LocalFirst(rd, rtop, rtime, ts, src) ==
    LET current_time == ts
        same(io)     == [rd |-> rd, rtop |-> rtop, rtime |-> rtime, io |-> io]
    IN  IF DOMAIN rd # {} /\ current_time - rtime < RPS_CACHE_DURATION
        THEN same(<< >>)
        ELSE
        LET local_all == src.la # Missing
            io1       == IF local_all THEN <<"local_all">> ELSE <<"remote_all">>
        IN  IF local_all /\ src.la = Raise
            THEN same(io1)
            ELSE
            LET loaded_all == local_all \/ src.ra.t = "list"
                data_list  == IF local_all THEN src.la ELSE src.ra
                rd1        == IF loaded_all /\ Truthy(data_list)
                              THEN IndexByCode(data_list.items)
                              ELSE rd
                local_top  == src.lt # Missing
                io2        == IF local_top THEN io1 \o <<"local_top">>
                              ELSE io1 \o <<"remote_top">>
            IN  IF local_top /\ src.lt = Raise
                THEN [rd |-> rd1, rtop |-> rtop, rtime |-> rtime, io |-> io2]
                ELSE
                LET loaded_top == local_top \/ src.rt.t = "dict"
                    new_top    == IF local_top THEN src.lt ELSE src.rt
                IN  [rd    |-> rd1,
                     rtop  |-> IF loaded_top THEN new_top ELSE rtop,
                     rtime |-> IF loaded_all \/ loaded_top
                               THEN current_time ELSE rtime,
                     io    |-> io2]

\* _load_rps_data at instant ts on a fetcher holding rps_data = rd,
\* rps_top_data = rtop, rps_cache_time = rtime: the new three values and the
\* sources it read, in order.
\* Variant: the loaded list replaces the full set even when it is empty.
LoadRpsFrom_InstallsEmpty(rd, rtop, rtime, ts, src) ==
    LET current_time == ts
        same(io)     == [rd |-> rd, rtop |-> rtop, rtime |-> rtime, io |-> io]
    IN  IF DOMAIN rd # {} /\ current_time - rtime < RPS_CACHE_DURATION
        THEN same(<< >>)
        ELSE
        LET remote_all == src.ra.t = "list"
            io1        == IF remote_all \/ src.la = Missing
                          THEN <<"remote_all">>
                          ELSE <<"remote_all", "local_all">>
        IN  IF ~remote_all /\ src.la = Raise
            THEN same(io1)
            ELSE
            LET loaded_all == remote_all \/ src.la # Missing
                data_list  == IF remote_all THEN src.ra ELSE src.la
                rd1        == IF loaded_all
                              THEN IndexByCode(data_list.items)
                              ELSE rd
                remote_top == src.rt.t = "dict"
                io2        == IF remote_top \/ src.lt = Missing
                              THEN io1 \o <<"remote_top">>
                              ELSE io1 \o <<"remote_top", "local_top">>
            IN  IF ~remote_top /\ src.lt = Raise
                THEN [rd |-> rd1, rtop |-> rtop, rtime |-> rtime, io |-> io2]
                ELSE
                LET loaded_top == remote_top \/ src.lt # Missing
                    new_top    == IF remote_top THEN src.rt ELSE src.lt
                IN  [rd    |-> rd1,
                     rtop  |-> IF loaded_top THEN new_top ELSE rtop,
                     rtime |-> IF loaded_all \/ loaded_top
                               THEN current_time ELSE rtime,
                     io    |-> io2]

LoadRpsFrom(rd, rtop, rtime, ts, src) ==
    LET current_time == ts
        same(io)     == [rd |-> rd, rtop |-> rtop, rtime |-> rtime, io |-> io]
    IN  IF DOMAIN rd # {} /\ current_time - rtime < RPS_CACHE_DURATION
        THEN same(<< >>)
        ELSE
        LET remote_all == src.ra.t = "list"
            io1        == IF remote_all \/ src.la = Missing
                          THEN <<"remote_all">>
                          ELSE <<"remote_all", "local_all">>
        IN  IF ~remote_all /\ src.la = Raise
            THEN same(io1)
            ELSE
            LET loaded_all == remote_all \/ src.la # Missing
                data_list  == IF remote_all THEN src.ra ELSE src.la
                rd1        == IF loaded_all /\ Truthy(data_list)
                              THEN IndexByCode(data_list.items)
                              ELSE rd
                remote_top == src.rt.t = "dict"
                io2        == IF remote_top \/ src.lt = Missing
                              THEN io1 \o <<"remote_top">>
                              ELSE io1 \o <<"remote_top", "local_top">>
            IN  IF ~remote_top /\ src.lt = Raise
                THEN [rd |-> rd1, rtop |-> rtop, rtime |-> rtime, io |-> io2]
                ELSE
                LET loaded_top == remote_top \/ src.lt # Missing
                    new_top    == IF remote_top THEN src.rt ELSE src.lt
                IN  [rd    |-> rd1,
                     rtop  |-> IF loaded_top THEN new_top ELSE rtop,
                     rtime |-> IF loaded_all \/ loaded_top
                               THEN current_time ELSE rtime,
                     io    |-> io2]

\* Variant: a full set that was loaded once is never loaded again.
RpsValueCall_NeverStale(code, src) ==
    LET reload == DOMAIN rps_data = {}
        ld     == IF reload
                  THEN LoadRpsFrom(rps_data, rps_top_data, rps_cache_time, now, src)
                  ELSE [rd |-> rps_data, rtop |-> rps_top_data,
                        rtime |-> rps_cache_time, io |-> << >>]
        pure_code == PureCode(code)
    IN  [rd |-> ld.rd, rtop |-> ld.rtop, rtime |-> ld.rtime, io |-> ld.io,
         ret |-> IF pure_code \in DOMAIN ld.rd THEN ld.rd[pure_code] ELSE EmptyDict]

\* get_rps_value(code): the lazy reload, then self.rps_data.get(pure_code, {})
RpsValueCall(code, src) ==
    LET reload == DOMAIN rps_data = {}
                  \/ now - rps_cache_time > RPS_CACHE_DURATION
        ld     == IF reload
                  THEN LoadRpsFrom(rps_data, rps_top_data, rps_cache_time, now, src)
                  ELSE [rd |-> rps_data, rtop |-> rps_top_data,
                        rtime |-> rps_cache_time, io |-> << >>]
        pure_code == PureCode(code)
    IN  [rd |-> ld.rd, rtop |-> ld.rtop, rtime |-> ld.rtime, io |-> ld.io,
         ret |-> IF pure_code \in DOMAIN ld.rd THEN ld.rd[pure_code] ELSE EmptyDict]

AttributeError == [t |-> "raise", exc |-> "AttributeError"]

\* f"top_{period}"
TopKey(period) == CASE period = 50 -> "top_50" [] period = 120 -> "top_120"
                    [] period = 250 -> "top_250" [] OTHER -> "top_other"

\* get_rps_top_list(period): the lazy reload, then
\* self.rps_top_data.get(key, []), which a list does not have
TopListCall(period, src) ==
    LET reload == ~Truthy(rps_top_data)
                  \/ now - rps_cache_time > RPS_CACHE_DURATION
        ld     == IF reload
                  THEN LoadRpsFrom(rps_data, rps_top_data, rps_cache_time, now, src)
                  ELSE [rd |-> rps_data, rtop |-> rps_top_data,
                        rtime |-> rps_cache_time, io |-> << >>]
        key    == TopKey(period)
    IN  [rd |-> ld.rd, rtop |-> ld.rtop, rtime |-> ld.rtime, io |-> ld.io,
         ret |-> IF ld.rtop.t # "dict" THEN AttributeError
                 ELSE IF key \in DOMAIN ld.rtop THEN ld.rtop[key]
                 ELSE List(<< >>)]

\* os.path.exists, open and json.load on a local file: a file that is being
\* written does not parse.
ReadFile(f) == IF f = Partial THEN Raise ELSE f

(***************************************************************************)
(* get_stock_price.                                                        *)
(***************************************************************************)
ValueError == [t |-> "raise", exc |-> "ValueError"]

\* The dict returned for the row of pure_code in df at instant ts.
PriceResult(stock, pure_code, df, ts) ==
    [t     |-> "dict",
     basic |-> [name |-> stock.name, code |-> pure_code, timestamp |-> ts],
     quote |-> [current |-> <<df.id, pure_code>>, level2 |-> None]]

\* Variant: with no table to read, a placeholder quote is made up.
PriceCall_Placeholder(code, spot) ==
    LET stock     == stock_list[code]
        pure_code == PureCode(code)
        df        == spot.ret
    IN  IF akshare /\ df # None /\ ~DfEmpty(df) /\ pure_code \in df.rows
        THEN PriceResult(stock, pure_code, df, now)
        ELSE PriceResult(stock, pure_code, Table(now, {pure_code}), now)

\* get_stock_price(code) for a code of stock_list, given the result `spot` of
\* its _get_market_spot_data call.
PriceCall(code, spot) ==
    LET stock     == stock_list[code]
        pure_code == PureCode(code)
        df        == spot.ret
    IN  IF akshare /\ df # None /\ ~DfEmpty(df) /\ pure_code \in df.rows
        THEN PriceResult(stock, pure_code, df, now)
        ELSE EmptyDict

(***************************************************************************)
(* get_stock_intraday: the 5-minute bars of ak.stock_zh_a_hist_min_em.     *)
(***************************************************************************)
INTRADAY_TAIL == 24

Bars(id, n) == [t |-> "bars", id |-> id, n |-> n]

BarCounts == {0, 30}

IntradayOutcomes(ts) == {Raise, None} \cup {Bars(ts, n) : n \in BarCounts}

\* df.tail(24), one dict per row
IntradayList(df) ==
    LET k == IF df.n < INTRADAY_TAIL THEN df.n ELSE INTRADAY_TAIL
    IN  List([i \in 1..k |-> [src |-> df.id, row |-> df.n - k + i]])

\* get_stock_intraday(code) when the upstream request, if made, does `out`:
\* the new cache, the value returned and the upstream requests made.
\* The time the comment above the store of the series gives it: one minute.
INTRADAY_TTL == 60

IntradayCall(code, out) ==
    LET cached_data == GetFromCache(code, "intraday")
    IN  IF Truthy(cached_data)
        THEN [cache |-> cache, ret |-> cached_data, io |-> << >>]
        ELSE IF ~akshare
        THEN [cache |-> cache, ret |-> List(<< >>), io |-> << >>]
        ELSE IF out = Raise
        THEN [cache |-> cache, ret |-> List(<< >>), io |-> <<"intraday">>]
        ELSE IF out = None \/ out.n = 0
        THEN [cache |-> cache, ret |-> List(<< >>), io |-> <<"intraday">>]
        ELSE LET data_list == IntradayList(out)
             IN  [cache |-> SaveToCache(code, data_list, "intraday"),
                  ret |-> data_list, io |-> <<"intraday">>]

(***************************************************************************)
(* get_stock_indicators: the daily history of ak.stock_zh_a_hist, of which *)
(* the model keeps the request that produced it, its number of rows and    *)
(* whether the close of its last row is missing (nan).                     *)
(***************************************************************************)
Hist(id, n) == [t |-> "hist", id |-> id, n |-> n, nan |-> FALSE]

HistGap(id, n) == [t |-> "hist", id |-> id, n |-> n, nan |-> TRUE]

HistLengths == {0, 80, MIN_HISTORY - 1, MIN_HISTORY}

HistOutcomes(ts) == {Raise, None} \cup {Hist(ts, n) : n \in HistLengths}

\* The histories of `lengths` rows whose last close is missing.
GapOutcomes(ts, lengths) == {HistGap(ts, n) : n \in lengths}

\* rps_info.get(key)
DictGet(d, key) == IF key \in DOMAIN d THEN d[key] ELSE None

\* float('nan')
NaN == [t |-> "nan"]

\* A value computed by f over the last w rows of the history (id, n).
Computed(f, w, id, n) == [t |-> "calc", f |-> f, w |-> w, of |-> <<id, n>>]

MA_WINDOWS == {5, 10, 20, 30, 60, 120}

\* df['close'].rolling(window=w).mean() at the last row: NaN when the
\* window is not full or holds a missing close.
RollingMean(df, w) ==
    IF df.nan \/ df.n < w THEN NaN ELSE Computed("mean", w, df.id, df.n)

\* safe_float(val): float(val) if pd.notna(val) else 0.0
SafeFloat(val) == IF val = NaN THEN Num(0) ELSE val

\* The bundle computed from the history df and the ranking record rps_info.
\* max() and min() of the high and low columns skip missing values.
Bundle(df, rps_info) ==
    [t          |-> "dict",
     indicators |-> [history |-> <<df.id, df.n>>,
                     ma      |-> [w \in MA_WINDOWS |->
                                    SafeFloat(RollingMean(df, w))],
                     high_120 |-> SafeFloat(Computed("max", MIN_HISTORY,
                                                     df.id, df.n)),
                     low_120  |-> SafeFloat(Computed("min", MIN_HISTORY,
                                                     df.id, df.n)),
                     rps_50  |-> DictGet(rps_info, "RPS_50"),
                     rps_120 |-> DictGet(rps_info, "RPS_120"),
                     rps_250 |-> DictGet(rps_info, "RPS_250")],
     chips      |-> [history |-> <<df.id, df.n>>],
     capital    |-> [flow |-> None]]

ErrorResult == [t |-> "dict", error |-> "Exception"]

\* Variant: the cache is read under the default data type.
IndicatorsCall_DefaultKey(code, out, src) ==
    LET cached_data == GetFromCache(code, "price")
        same(r, io) == [cache |-> cache, rd |-> rps_data, rtop |-> rps_top_data,
                        rtime |-> rps_cache_time, ret |-> r, io |-> io]
    IN  IF Truthy(cached_data) THEN same(cached_data, << >>)
        ELSE IF ~akshare THEN same(ErrorResult, << >>)
        ELSE IF out = Raise THEN same(ErrorResult, <<"hist">>)
        ELSE IF out = None \/ out.n < MIN_HISTORY THEN same(EmptyDict, <<"hist">>)
        ELSE LET rps    == RpsValueCall(PureCode(code), src)
                 flow   == IF code \in DOMAIN stock_list
                           THEN <<"fund_flow">> ELSE << >>
                 result == Bundle(out, rps.ret)
             IN  [cache |-> SaveToCache(code, result, "indicators"),
                  rd |-> rps.rd, rtop |-> rps.rtop, rtime |-> rps.rtime,
                  ret |-> result, io |-> <<"hist">> \o rps.io \o flow]

\* Variant: the history is only required to cover the 60-day average.
IndicatorsCall_ShortHistory(code, out, src) ==
    LET cached_data == GetFromCache(code, "indicators")
        same(r, io) == [cache |-> cache, rd |-> rps_data, rtop |-> rps_top_data,
                        rtime |-> rps_cache_time, ret |-> r, io |-> io]
    IN  IF Truthy(cached_data) THEN same(cached_data, << >>)
        ELSE IF ~akshare THEN same(ErrorResult, << >>)
        ELSE IF out = Raise THEN same(ErrorResult, <<"hist">>)
        ELSE IF out = None \/ out.n < 60 THEN same(EmptyDict, <<"hist">>)
        ELSE LET rps    == RpsValueCall(PureCode(code), src)
                 flow   == IF code \in DOMAIN stock_list
                           THEN <<"fund_flow">> ELSE << >>
                 result == Bundle(out, rps.ret)
             IN  [cache |-> SaveToCache(code, result, "indicators"),
                  rd |-> rps.rd, rtop |-> rps.rtop, rtime |-> rps.rtime,
                  ret |-> result, io |-> <<"hist">> \o rps.io \o flow]

\* get_stock_indicators(code) when the history request, if made, does `out`
\* and the ranking sources, if read, answer `src`.
\* Variant: the error result of a failed computation is stored like a bundle.
IndicatorsCall_CachesError(code, out, src) ==
    LET cached_data == GetFromCache(code, "indicators")
        same(r, io) == [cache |-> cache, rd |-> rps_data, rtop |-> rps_top_data,
                        rtime |-> rps_cache_time, ret |-> r, io |-> io]
    IN  IF Truthy(cached_data) THEN same(cached_data, << >>)
        ELSE IF ~akshare THEN same(ErrorResult, << >>)
        ELSE IF out = Raise
        THEN [cache |-> SaveToCache(code, ErrorResult, "indicators"),
              rd |-> rps_data, rtop |-> rps_top_data, rtime |-> rps_cache_time,
              ret |-> ErrorResult, io |-> <<"hist">>]
        ELSE IF out = None \/ out.n < MIN_HISTORY THEN same(EmptyDict, <<"hist">>)
        ELSE LET rps    == RpsValueCall(PureCode(code), src)
                 flow   == IF code \in DOMAIN stock_list
                           THEN <<"fund_flow">> ELSE << >>
                 result == Bundle(out, rps.ret)
             IN  [cache |-> SaveToCache(code, result, "indicators"),
                  rd |-> rps.rd, rtop |-> rps.rtop, rtime |-> rps.rtime,
                  ret |-> result, io |-> <<"hist">> \o rps.io \o flow]

IndicatorsCall(code, out, src) ==
    LET cached_data == GetFromCache(code, "indicators")
        same(r, io) == [cache |-> cache, rd |-> rps_data, rtop |-> rps_top_data,
                        rtime |-> rps_cache_time, ret |-> r, io |-> io]
    IN  IF Truthy(cached_data) THEN same(cached_data, << >>)
        ELSE IF ~akshare THEN same(ErrorResult, << >>)
        ELSE IF out = Raise THEN same(ErrorResult, <<"hist">>)
        ELSE IF out = None \/ out.n < MIN_HISTORY THEN same(EmptyDict, <<"hist">>)
        ELSE LET rps    == RpsValueCall(PureCode(code), src)
                 flow   == IF code \in DOMAIN stock_list
                           THEN <<"fund_flow">> ELSE << >>
                 result == Bundle(out, rps.ret)
             IN  [cache |-> SaveToCache(code, result, "indicators"),
                  rd |-> rps.rd, rtop |-> rps.rtop, rtime |-> rps.rtime,
                  ret |-> result, io |-> <<"hist">> \o rps.io \o flow]

(***************************************************************************)
(* The state after StockDataFetcher() has run: the stock list was loaded   *)
(* (from a first snapshot, or the fallback list) and the ranking data was  *)
(* preloaded.                                                              *)
(***************************************************************************)
StartTime == 9 * 3600 + 14 * 60 + 59

Callers == 1..NumCallers

IdleCaller == [pc |-> "idle", now_ts |-> 0, seen |-> 0, df |-> None, ret |-> None]

\* The record of a call: the operation and its argument, the value it
\* returned, the upstream requests it made in order (io) and what the
\* upstream answered (out); pre / preTime are the payload and the time held
\* before the call under the key it looks up: market_spot_data and
\* market_spot_time for the snapshot, the entry's data and expire_at for the
\* keyed cache.
NoCall == [op |-> "none", code |-> << >>, ret |-> None, io |-> << >>,
           pre |-> None, preTime |-> 0, out |-> None]

Calendars == {"ok", "raises", "absent"}

\* update_rps_rankings is not running and has not run; no bundle is being
\* computed.
IdleWriter == [pc |-> "idle", results |-> None]

IdleChip == [k |-> 0, left |-> 0, total |-> 0]

\* calculate_rps_all is started by the scheduler (line 118) and by
\* trigger_update (line 161), each on a thread of its own.
Runs == {"scheduled", "manual"}

\* A run: its position, its local new_cache, how its last execution ended
\* and whether that execution reached the assignment of line 103.
IdleRun == [pc |-> "idle", new_cache |-> << >>, end |-> "none",
            assigned |-> FALSE]

SideIdle ==
    /\ writer = IdleWriter
    /\ chip = IdleChip
    /\ CACHE_FILE = Missing
    /\ runs = [r \in Runs |-> IdleRun]

\* No ranking job has run: nothing was listed, fetched or written.
JobsIdle ==
    /\ daily = << >>
    /\ df_stocks = None
    /\ futures = << >>
    /\ results = << >>
    /\ df_res = << >>
    /\ rps_file = Missing
    /\ top_file = Missing
    /\ job_pc = "idle"
    /\ RPS_DATA = << >>
    /\ service_results = << >>
    /\ rps_debug = << >>
    /\ SideIdle

\* The construction under one of the calendars `cals`, when the ranking
\* sources answer one of `sources`.
Constructed(cals, sources) ==
    /\ now = StartTime
    /\ akshare \in BOOLEAN
    /\ calendar \in cals
    /\ \E out \in SpotOutcomes(now) :
        LET spot == SpotCallFrom(None, 0, None, now, out)
        IN  /\ market_spot_data = spot.data
            /\ market_spot_time = spot.time
            /\ stock_df = spot.ret
            /\ stock_list = LoadStockListFrom(<< >>, spot)
    /\ cache = << >>
    /\ \E src \in sources :
        LET ld == LoadRpsFrom(<< >>, EmptyDict, 0, now, src)
        IN  /\ rps_data = ld.rd
            /\ rps_top_data = ld.rtop
            /\ rps_cache_time = ld.rtime
    /\ callers = [th \in Callers |-> IdleCaller]
    /\ last = NoCall
    /\ JobsIdle

Init == Constructed(Calendars, RpsSources)

\* No ranking source answers during the construction.
NoRpsSource == [ra |-> Raise, la |-> Missing, rt |-> Raise, lt |-> Missing]

InitSnapshot == Constructed(Calendars, {NoRpsSource})

\* The remote ranking source answers both documents.
RemoteRpsSource ==
    [ra |-> RemoteAll, la |-> Missing, rt |-> RemoteTop, lt |-> Missing]

CacheSources == {NoRpsSource, RemoteRpsSource}

InitCache == Constructed({"ok"}, CacheSources)

(***************************************************************************)
(* The clock.                                                              *)
(***************************************************************************)
OpenTime == 9 * 3600 + 15 * 60

CoarseInstants ==
    {OpenTime + d :
        d \in {0, TRADING_TTL - 1, TRADING_TTL, CACHE_DURATION - 1, CACHE_DURATION}}
    \cup {OpenTime + CACHE_DURATION + k * TRADING_TTL : k \in 1..MaxRound}

Tick(S) ==
    /\ \E ts \in S : ts > now /\ now' = ts
    /\ last' = NoCall
    /\ UNCHANGED <<akshare, calendar, stock_list, stock_df, market_spot_data,
                   market_spot_time, cache, rps_data, rps_top_data,
                   rps_cache_time, callers>>
    /\ UNCHANGED jobVars

TickFine == Tick(Instants)

TickCoarse == Tick(CoarseInstants)

\* For the concurrent callers: instants one session TTL apart.
ConcInstants == {StartTime + k * TRADING_TTL : k \in 1..(MaxRound + 2)}

TickConc == Tick(ConcInstants)

(***************************************************************************)
(* One action per call.                                                    *)
(***************************************************************************)
Bool(b) == [t |-> "bool", v |-> b]

IsTradingTimeCall ==
    /\ last' = [NoCall EXCEPT !.op = "is_trading_time",
                              !.ret = Bool(IsTradingTime(now, calendar))]
    /\ UNCHANGED <<now, akshare, calendar, stock_list, stock_df,
                   market_spot_data, market_spot_time, cache, rps_data,
                   rps_top_data, rps_cache_time, callers>>
    /\ UNCHANGED jobVars

SpotIo(spot) == IF spot.fetched THEN <<"spot">> ELSE << >>

GetMarketSpotData ==
    \E out \in SpotOutcomes(now) :
        LET spot == SpotCall(out)
        IN  /\ market_spot_data' = spot.data
            /\ market_spot_time' = spot.time
            /\ stock_df' = spot.df
            /\ last' = [op |-> "get_snapshot", code |-> << >>, ret |-> spot.ret,
                        io |-> SpotIo(spot), pre |-> market_spot_data,
                        preTime |-> market_spot_time,
                        out |-> IF spot.fetched THEN out ELSE None]
            /\ UNCHANGED <<now, akshare, calendar, stock_list, cache, rps_data,
                           rps_top_data, rps_cache_time, callers>>
            /\ UNCHANGED jobVars

PriceCodes == {C600000, Prefixed(C600000), C830799, C999999}

GetStockPrice ==
    \E code \in PriceCodes :
        IF code \notin DOMAIN stock_list
        THEN /\ last' = [NoCall EXCEPT !.op = "get_stock_price", !.code = code,
                                       !.ret = ValueError,
                                       !.pre = market_spot_data,
                                       !.preTime = market_spot_time]
             /\ UNCHANGED <<now, akshare, calendar, stock_list, stock_df,
                            market_spot_data, market_spot_time, cache, rps_data,
                            rps_top_data, rps_cache_time, callers>>
             /\ UNCHANGED jobVars
        ELSE \E out \in SpotOutcomes(now) :
            LET spot == IF akshare THEN SpotCall(out)
                        ELSE [data |-> market_spot_data,
                              time |-> market_spot_time, df |-> stock_df,
                              ret |-> None, fetched |-> FALSE]
            IN  /\ market_spot_data' = spot.data
                /\ market_spot_time' = spot.time
                /\ stock_df' = spot.df
                /\ last' = [op |-> "get_stock_price", code |-> code,
                            ret |-> PriceCall(code, spot), io |-> SpotIo(spot),
                            pre |-> market_spot_data,
                            preTime |-> market_spot_time,
                            out |-> IF spot.fetched THEN out ELSE None]
                /\ UNCHANGED <<now, akshare, calendar, stock_list, cache,
                               rps_data, rps_top_data, rps_cache_time, callers>>
                /\ UNCHANGED jobVars

LookupCodes == {Prefixed(C600000)}

GetStockIntraday(codes) ==
    \E code \in codes, out \in IntradayOutcomes(now) :
        LET r == IntradayCall(code, out)
        IN  /\ cache' = r.cache
            /\ last' = [op |-> "get_stock_intraday", code |-> code,
                        ret |-> r.ret, io |-> r.io,
                        pre |-> RawEntry(code, "intraday").data,
                        preTime |-> RawEntry(code, "intraday").expire_at,
                        out |-> IF r.io = << >> THEN None ELSE out]
            /\ UNCHANGED <<now, akshare, calendar, stock_list, stock_df,
                           market_spot_data, market_spot_time, rps_data,
                           rps_top_data, rps_cache_time, callers>>
            /\ UNCHANGED jobVars

GetStockIndicators(codes, gaps, sources) ==
    \E code \in codes, src \in sources,
       out \in HistOutcomes(now) \cup GapOutcomes(now, gaps) :
        LET r == IndicatorsCall(code, out, src)
        IN  /\ cache' = r.cache
            /\ rps_data' = r.rd
            /\ rps_top_data' = r.rtop
            /\ rps_cache_time' = r.rtime
            /\ last' = [op |-> "get_stock_indicators", code |-> code,
                        ret |-> r.ret, io |-> r.io,
                        pre |-> RawEntry(code, "indicators").data,
                        preTime |-> RawEntry(code, "indicators").expire_at,
                        out |-> IF r.io = << >> THEN None ELSE out]
            /\ UNCHANGED <<now, akshare, calendar, stock_list, stock_df,
                           market_spot_data, market_spot_time, callers>>
            /\ UNCHANGED jobVars

\* get_stock_info(code) for a code of stock_list: the row of self.stock_df
\* when there is one, else the placeholder record.  No upstream is asked.
InfoCall(code) ==
    LET stock     == stock_list[code]
        pure_code == PureCode(code)
    IN  IF akshare /\ stock_df # None /\ pure_code \in stock_df.rows
        THEN [t |-> "dict", code |-> pure_code, market |-> stock.market,
              row |-> <<stock_df.id, pure_code>>]
        ELSE [t |-> "dict", code |-> pure_code, market |-> stock.market,
              industry |-> "unknown", pe_ratio |-> 0]

GetStockInfo(codes) ==
    \E code \in codes :
        /\ last' = [NoCall EXCEPT !.op = "get_stock_info", !.code = code,
                                  !.ret = IF code \in DOMAIN stock_list
                                          THEN InfoCall(code) ELSE ValueError]
        /\ UNCHANGED <<now, akshare, calendar, stock_list, stock_df,
                       market_spot_data, market_spot_time, cache, rps_data,
                       rps_top_data, rps_cache_time, callers>>
        /\ UNCHANGED jobVars

MAX_DAYS == 365

HistoricalDays == {30, MAX_DAYS + 1}

\* get_stock_historical(code, days) for a code of stock_list, when the
\* history request, if made, does `out`.
HistoricalCall(code, days, out) ==
    LET capped == IF days > MAX_DAYS THEN MAX_DAYS ELSE days
        empty  == [t |-> "dict", code |-> code, period |-> capped, count |-> 0,
                   data |-> None, error |-> "Source unavailable"]
    IN  IF ~akshare THEN [ret |-> empty, io |-> << >>]
        ELSE IF out # Raise /\ out # None /\ out.n > 0
        THEN [ret |-> [t |-> "dict", code |-> code, period |-> capped,
                       count |-> out.n, data |-> out, error |-> "none"],
              io |-> <<"hist">>]
        ELSE [ret |-> empty, io |-> <<"hist">>]

GetStockHistorical(codes) ==
    \E code \in codes, days \in HistoricalDays, out \in HistOutcomes(now) :
        LET r == IF code \in DOMAIN stock_list
                 THEN HistoricalCall(code, days, out)
                 ELSE [ret |-> ValueError, io |-> << >>]
        IN  /\ last' = [NoCall EXCEPT !.op = "get_stock_historical",
                                      !.code = code, !.ret = r.ret,
                                      !.io = r.io,
                                      !.out = IF r.io = << >> THEN None ELSE out]
            /\ UNCHANGED <<now, akshare, calendar, stock_list, stock_df,
                           market_spot_data, market_spot_time, cache, rps_data,
                           rps_top_data, rps_cache_time, callers>>
            /\ UNCHANGED jobVars

(***************************************************************************)
(* _get_market_spot_data run by concurrent callers.  The method takes no   *)
(* lock, so the steps of different callers interleave between its expiry   *)
(* check, its upstream request and each of its three assignments.  pc is   *)
(* the caller's position, now_ts its local of that name, seen the capture  *)
(* time of the snapshot its check found expired (-1: none stored), df the  *)
(* table its request returned, ret the value its last call returned.       *)
(***************************************************************************)
\* Lines 284-302: the session gate, the TTL and the expiry check.
CallerCheck(th) ==
    /\ callers[th].pc = "idle"
    /\ LET is_trading     == IsTradingTime(now, calendar)
           cache_duration == IF is_trading THEN TRADING_TTL ELSE CLOSED_TTL
           now_ts         == now
       IN  IF market_spot_data # None /\ now_ts - market_spot_time < cache_duration
           THEN callers' = [callers EXCEPT ![th] =
                    [IdleCaller EXCEPT !.ret = market_spot_data]]
           ELSE IF ~akshare
           THEN callers' = [callers EXCEPT ![th] = IdleCaller]
           ELSE callers' = [callers EXCEPT ![th] =
                    [pc |-> "fetch", now_ts |-> now_ts,
                     seen |-> IF market_spot_data = None THEN -1
                              ELSE market_spot_time,
                     df |-> None, ret |-> None]]
    /\ UNCHANGED <<now, akshare, calendar, stock_list, stock_df,
                   market_spot_data, market_spot_time, cache, rps_data,
                   rps_top_data, rps_cache_time, last>>
    /\ UNCHANGED jobVars

\* Lines 310-328: the upstream request and, when it fails, the fallback.
CallerFetch(th) ==
    /\ callers[th].pc = "fetch"
    /\ \E out \in SpotOutcomes(now) :
        IF out # Raise /\ out # None /\ ~DfEmpty(out)
        THEN callers' = [callers EXCEPT ![th].pc = "store_data", ![th].df = out]
        ELSE callers' = [callers EXCEPT ![th] =
                 [IdleCaller EXCEPT !.ret = market_spot_data]]
    /\ UNCHANGED <<now, akshare, calendar, stock_list, stock_df,
                   market_spot_data, market_spot_time, cache, rps_data,
                   rps_top_data, rps_cache_time, last>>
    /\ UNCHANGED jobVars

\* Line 314: self.market_spot_data = df
CallerStoreData(th) ==
    /\ callers[th].pc = "store_data"
    /\ market_spot_data' = callers[th].df
    /\ callers' = [callers EXCEPT ![th].pc = "store_time"]
    /\ UNCHANGED <<now, akshare, calendar, stock_list, stock_df,
                   market_spot_time, cache, rps_data, rps_top_data,
                   rps_cache_time, last>>
    /\ UNCHANGED jobVars

\* Line 315: self.market_spot_time = now_ts
CallerStoreTime(th) ==
    /\ callers[th].pc = "store_time"
    /\ market_spot_time' = callers[th].now_ts
    /\ callers' = [callers EXCEPT ![th].pc = "store_df"]
    /\ UNCHANGED <<now, akshare, calendar, stock_list, stock_df,
                   market_spot_data, cache, rps_data, rps_top_data,
                   rps_cache_time, last>>
    /\ UNCHANGED jobVars

\* Lines 317-318: self.stock_df = df; return df
CallerStoreDf(th) ==
    /\ callers[th].pc = "store_df"
    /\ stock_df' = callers[th].df
    /\ callers' = [callers EXCEPT ![th] =
            [IdleCaller EXCEPT !.ret = callers[th].df]]
    /\ UNCHANGED <<now, akshare, calendar, stock_list, market_spot_data,
                   market_spot_time, cache, rps_data, rps_top_data,
                   rps_cache_time, last>>
    /\ UNCHANGED jobVars

(***************************************************************************)
(* The ranking batch, generate_rps.py.  A daily history is kept as its     *)
(* number of rows n and the line its closes lie on: the i-th close         *)
(* (i = 1..n, oldest first) is base + step * i.  A gain is the fraction    *)
(* n / d with d > 0; a rank (RPS) and a gain in percent are in hundredths, *)
(* so that Num(6667) stands for 66.67.  The name and the date of a record  *)
(* are copied from the listing and the last row and are left out.          *)
(***************************************************************************)
Daily(n, base, step) == [t |-> "daily", n |-> n, base |-> base, step |-> step]

\* closes[i - 1] of the source, which counts from 0
Close(h, i) == h.base + h.step * i

Frac(n, d) == IF d < 0 THEN [t |-> "frac", n |-> -n, d |-> -d]
              ELSE [t |-> "frac", n |-> n, d |-> d]

GainLT(a, b) == a.n * b.d < b.n * a.d

GainEQ(a, b) == a.n * b.d = b.n * a.d

GainLE(a, b) == GainLT(a, b) \/ GainEQ(a, b)

Windows == {50, 120, 250}

MIN_ROWS == 50

\* Variant: a window of N sessions is served from N closes.
GetGain_AtLeast(h, days) ==
    IF h.n >= days
    THEN LET current_close == Close(h, h.n)
             prev          == Close(h, h.n - days)
         IN  IF prev = 0 THEN Frac(0, 1)
             ELSE Frac(current_close - prev, prev)
    ELSE None

\* get_gain(days): closes[-(days+1)] is the close `days` rows before the last
GetGain(h, days) ==
    IF h.n > days
    THEN LET current_close == Close(h, h.n)
             prev          == Close(h, h.n - days)
         IN  IF prev = 0 THEN Frac(0, 1)
             ELSE Frac(current_close - prev, prev)
    ELSE None

\* Variant: a history of exactly 50 rows is dropped.
FetchAndCalculateRps_Over50(code, out) ==
    IF out = Raise \/ out = None \/ out.n <= MIN_ROWS
    THEN None
    ELSE [t |-> "dict", code |-> code, close |-> Close(out, out.n),
          gain_50 |-> GetGain(out, 50), gain_120 |-> GetGain(out, 120),
          gain_250 |-> GetGain(out, 250)]

\* fetch_and_calculate_rps(stock_info, end_date) when ak.stock_zh_a_hist
\* does `out` for the symbol
FetchAndCalculateRps(code, out) ==
    IF out = Raise \/ out = None \/ out.n < MIN_ROWS
    THEN None
    ELSE [t |-> "dict", code |-> code, close |-> Close(out, out.n),
          gain_50 |-> GetGain(out, 50), gain_120 |-> GetGain(out, 120),
          gain_250 |-> GetGain(out, 250)]

\* x[f"gain_{p}"] and x.get(f"RPS_{p}")
GainOf(x, p) == CASE p = 50 -> x.gain_50 [] p = 120 -> x.gain_120
                  [] p = 250 -> x.gain_250

RpsOf(x, p) == CASE p = 50 -> x.RPS_50 [] p = 120 -> x.RPS_120
                 [] p = 250 -> x.RPS_250

\* round(a / b, 2 places further up): the nearest integer to a / b for
\* b > 0, the even one of the two when a / b lies halfway
RoundHalfEven(a, b) ==
    LET q == a \div b
        r == a % b
    IN  IF 2 * r < b THEN q
        ELSE IF 2 * r > b THEN q + 1
        ELSE IF q % 2 = 0 THEN q ELSE q + 1

\* mask = df_res[col_gain].notna()
Mask(rows, p) == {i \in DOMAIN rows : GainOf(rows[i], p) # None}

\* Variant: the rank counts the rows with a larger gain.
RankOf_Descending(rows, i, p) ==
    LET mask == Mask(rows, p)
        g    == GainOf(rows[i], p)
        more == Cardinality({j \in mask : GainLT(g, GainOf(rows[j], p))})
        same == Cardinality({j \in mask : GainEQ(GainOf(rows[j], p), g)})
    IN  IF i \notin mask THEN None
        ELSE Num(RoundHalfEven(10000 * (2 * more + same + 1),
                               2 * Cardinality(mask)))

\* rank(pct=True, ascending=True) * 100, rounded to 2 places, of row i among
\* the rows of the mask: pandas ranks by the average position of the rows
\* holding the same gain (method='average', its default)
RankOf(rows, i, p) ==
    LET mask == Mask(rows, p)
        g    == GainOf(rows[i], p)
        less == Cardinality({j \in mask : GainLT(GainOf(rows[j], p), g)})
        same == Cardinality({j \in mask : GainEQ(GainOf(rows[j], p), g)})
    IN  IF i \notin mask THEN None
        ELSE Num(RoundHalfEven(10000 * (2 * less + same + 1),
                               2 * Cardinality(mask)))

\* (gain * 100).round(2)
GainPct(g) == IF g = None THEN None ELSE Num(RoundHalfEven(10000 * g.n, g.d))

\* Lines 141-166: the rows of df_res after the three windows were ranked,
\* as records in which a missing value is None
RankAll(rows) ==
    [i \in DOMAIN rows |->
        rows[i] @@
        [RPS_50  |-> RankOf(rows, i, 50),
         RPS_120 |-> RankOf(rows, i, 120),
         RPS_250 |-> RankOf(rows, i, 250),
         gain_50_pct  |-> GainPct(rows[i].gain_50),
         gain_120_pct |-> GainPct(rows[i].gain_120),
         gain_250_pct |-> GainPct(rows[i].gain_250)]]

\* list.sort(key=..., reverse=True), keys[i] being the key of seq[i]:
\* descending and stable
SortDesc(seq, keys) ==
    LET pos(i) == 1 + Cardinality({j \in DOMAIN seq : keys[j] > keys[i]})
                    + Cardinality({j \in DOMAIN seq :
                                     j < i /\ keys[j] = keys[i]})
    IN  [k \in DOMAIN seq |-> seq[CHOOSE i \in DOMAIN seq : pos(i) = k]]

\* x.get("RPS_120") or -1
FinalKey(x) == IF x.RPS_120 = None \/ x.RPS_120.v = 0 THEN -100 ELSE x.RPS_120.v

\* Lines 159-168: final_list
FinalList(rows) == SortDesc(rows, [i \in DOMAIN rows |-> FinalKey(rows[i])])

TOP_RPS == 90

\* Variant: the lists take the records from 80 up.
TopList_From80(final_list, p) ==
    LET tops == SelectSeq(final_list,
                    LAMBDA x : /\ RpsOf(x, p) # None
                               /\ RpsOf(x, p).v # 0
                               /\ RpsOf(x, p).v >= (TOP_RPS - 10) * 100)
    IN  List(SortDesc(tops, [i \in DOMAIN tops |-> RpsOf(tops[i], p).v]))

\* Variant: a record ranked exactly 90 is left out.
TopList_Above90(final_list, p) ==
    LET tops == SelectSeq(final_list,
                    LAMBDA x : /\ RpsOf(x, p) # None
                               /\ RpsOf(x, p).v # 0
                               /\ RpsOf(x, p).v > TOP_RPS * 100)
    IN  List(SortDesc(tops, [i \in DOMAIN tops |-> RpsOf(tops[i], p).v]))

\* Lines 179-181: the records of final_list ranked 90 or more in window p
TopList(final_list, p) ==
    LET tops == SelectSeq(final_list,
                    LAMBDA x : /\ RpsOf(x, p) # None
                               /\ RpsOf(x, p).v # 0
                               /\ RpsOf(x, p).v >= TOP_RPS * 100)
    IN  List(SortDesc(tops, [i \in DOMAIN tops |-> RpsOf(tops[i], p).v]))

\* Lines 175-182: top_data
TopData(final_list) ==
    [t |-> "dict", top_50 |-> TopList(final_list, 50),
     top_120 |-> TopList(final_list, 120),
     top_250 |-> TopList(final_list, 250)]

(***************************************************************************)
(* The market the ranking jobs read: the listing of ak.stock_zh_a_spot_em  *)
(* and, per symbol, what ak.stock_zh_a_hist answers.  Three symbols have   *)
(* 251 rows and gain 20%, 5% and -10% over 250 sessions; the other two     *)
(* take every outcome around the limits of 50, 120 and 250 rows.           *)
(***************************************************************************)
BatchCodes == {C600519, C300750, C600036, C000858, C600000}

HistA == Daily(251, 1249, 1)
HistB == Daily(251, 4999, 1)
HistC == Daily(251, 2501, -1)

OutcomesD ==
    {Raise, Daily(0, 0, 0), Daily(MIN_ROWS - 1, 100, 1), Daily(MIN_ROWS, 100, 1),
     Daily(MIN_ROWS + 1, 100, 1), HistA}

OutcomesE ==
    {None, Daily(120, 200, 1), Daily(121, 200, 1), Daily(250, 300, 1), HistC,
     Daily(MIN_ROWS + 1, 0, 0)}

Markets ==
    {[c \in BatchCodes |->
        CASE c = C600519 -> HistA
          [] c = C300750 -> HistB
          [] c = C600036 -> HistC
          [] c = C000858 -> d
          [] c = C600000 -> e] : d \in OutcomesD, e \in OutcomesE}

ListingOutcomes == {None, Table(0, {}), Table(0, BatchCodes)}

\* An upstream that accepts the request and never answers it.
Hang == [t |-> "hang"]

\* Markets in which the upstream may never answer for one symbol.
HangMarkets ==
    {[c \in BatchCodes |->
        CASE c = C600519 -> HistA
          [] c = C300750 -> HistB
          [] c = C600036 -> HistC
          [] c = C000858 -> d
          [] c = C600000 -> e] : d \in {Hang, HistA}, e \in {None, HistC}}

\* No StockDataFetcher was constructed: the jobs are programs of their own.
NoFetcher ==
    /\ now = StartTime
    /\ akshare = TRUE
    /\ calendar = "ok"
    /\ stock_list = << >>
    /\ stock_df = None
    /\ market_spot_data = None
    /\ market_spot_time = 0
    /\ cache = << >>
    /\ rps_data = << >>
    /\ rps_top_data = EmptyDict
    /\ rps_cache_time = 0
    /\ callers = [th \in Callers |-> IdleCaller]
    /\ last = NoCall

fetcherVars == <<now, akshare, calendar, stock_list, stock_df,
                 market_spot_data, market_spot_time, cache, rps_data,
                 rps_top_data, rps_cache_time, callers, last>>

InitBatch ==
    /\ NoFetcher
    /\ daily \in Markets
    /\ df_stocks = None
    /\ futures = << >>
    /\ results = << >>
    /\ df_res = << >>
    /\ rps_file = Missing
    /\ top_file = Missing
    /\ job_pc = "idle"
    /\ RPS_DATA = << >>
    /\ service_results = << >>
    /\ rps_debug = << >>
    /\ SideIdle

\* Lines 97-125: the listing, then one task submitted per row.
BatchStart ==
    /\ job_pc = "idle"
    /\ \E out \in ListingOutcomes :
        /\ df_stocks' = out
        /\ IF out = None \/ DfEmpty(out)
           THEN /\ job_pc' = "done"
                /\ UNCHANGED futures
           ELSE /\ job_pc' = "pool"
                /\ futures' = [c \in out.rows |-> [st |-> "submitted", res |-> None]]
    /\ UNCHANGED <<daily, results, df_res, rps_file, top_file, RPS_DATA,
                   service_results, rps_debug>>
    /\ UNCHANGED fetcherVars
    /\ UNCHANGED sideVars

\* A worker of the pool runs the task of one symbol to its end: the call
\* of ak.stock_zh_a_hist is given no timeout and returns when the upstream
\* answers.
WorkerRun(code) ==
    /\ code \in DOMAIN futures
    /\ futures[code].st = "submitted"
    /\ daily[code] # Hang
    /\ futures' = [futures EXCEPT ![code] =
            [st |-> "finished", res |-> FetchAndCalculateRps(code, daily[code])]]
    /\ UNCHANGED <<daily, df_stocks, results, df_res, rps_file, top_file,
                   job_pc, RPS_DATA, service_results, rps_debug>>
    /\ UNCHANGED fetcherVars
    /\ UNCHANGED sideVars

\* Lines 130-134: as_completed hands over a finished future.
Collect(code) ==
    /\ job_pc = "pool"
    /\ code \in DOMAIN futures
    /\ futures[code].st = "finished"
    /\ results' = IF Truthy(futures[code].res)
                  THEN Append(results, futures[code].res)
                  ELSE results
    /\ futures' = [futures EXCEPT ![code].st = "collected"]
    /\ UNCHANGED <<daily, df_stocks, df_res, rps_file, top_file, job_pc,
                   RPS_DATA, service_results, rps_debug>>
    /\ UNCHANGED fetcherVars
    /\ UNCHANGED sideVars

\* Variant: the ranking does not wait for the futures.
Rank_Early ==
    /\ job_pc = "pool"
    /\ df_res' = RankAll(results)
    /\ job_pc' = "write_all"
    /\ UNCHANGED <<daily, df_stocks, futures, results, rps_file, top_file,
                   RPS_DATA, service_results, rps_debug>>
    /\ UNCHANGED fetcherVars
    /\ UNCHANGED sideVars

\* Lines 130-156: the loop over as_completed and the with block have ended,
\* which they do once every future was handed over; the ranking.
Rank ==
    /\ job_pc = "pool"
    /\ \A code \in DOMAIN futures : futures[code].st = "collected"
    /\ df_res' = RankAll(results)
    /\ job_pc' = "write_all"
    /\ UNCHANGED <<daily, df_stocks, futures, results, rps_file, top_file,
                   RPS_DATA, service_results, rps_debug>>
    /\ UNCHANGED fetcherVars
    /\ UNCHANGED sideVars

\* Line 170: open(RPS_FILE, "w") truncates the file, and nothing of the new
\* document is in it yet.
OpenRpsFile ==
    /\ job_pc = "write_all"
    /\ rps_file' = Partial
    /\ job_pc' = "dump_all"
    /\ UNCHANGED <<daily, df_stocks, futures, results, df_res, top_file,
                   RPS_DATA, service_results, rps_debug>>
    /\ UNCHANGED fetcherVars
    /\ UNCHANGED sideVars

\* Lines 159-171: json.dump has written final_list to RPS_FILE and the with
\* block has closed it.
WriteRpsFile ==
    /\ job_pc = "dump_all"
    /\ rps_file' = List(FinalList(df_res))
    /\ job_pc' = "write_top"
    /\ UNCHANGED <<daily, df_stocks, futures, results, df_res, top_file,
                   RPS_DATA, service_results, rps_debug>>
    /\ UNCHANGED fetcherVars
    /\ UNCHANGED sideVars

\* Line 184: open(TOP_RPS_FILE, "w") truncates the file.
OpenTopFile ==
    /\ job_pc = "write_top"
    /\ top_file' = Partial
    /\ job_pc' = "dump_top"
    /\ UNCHANGED <<daily, df_stocks, futures, results, df_res, rps_file,
                   RPS_DATA, service_results, rps_debug>>
    /\ UNCHANGED fetcherVars
    /\ UNCHANGED sideVars

\* Lines 174-185: json.dump has written top_data to TOP_RPS_FILE.
WriteTopFile ==
    /\ job_pc = "dump_top"
    /\ top_file' = TopData(FinalList(df_res))
    /\ job_pc' = "done"
    /\ UNCHANGED <<daily, df_stocks, futures, results, df_res, rps_file,
                   RPS_DATA, service_results, rps_debug>>
    /\ UNCHANGED fetcherVars
    /\ UNCHANGED sideVars

(***************************************************************************)
(* The ranking service (rps_service/rps_app.py) and the demonstration      *)
(* (debug_rps.py), both of the 250-session window only.  Their results are *)
(* kept per symbol; a symbol appears once in the listing.                  *)
(***************************************************************************)
PERIOD == 250
\* What rps_cache.joblib holds after joblib.dump(data, CACHE_FILE) returned.
Dumped(data) == [t |-> "joblib", data |-> data]

\* What the file can hold after joblib.dump(data, CACHE_FILE) on a file
\* holding `file`: the dump of data, or, when the call raises, the file as
\* it was (it could not be opened) or a part of the dump.
DumpOutcomes(file, data) == {Dumped(data), file, Partial}

\* rps_app lines 67-78: the gain appended for a symbol, None when the
\* symbol is skipped
ServiceGain(out) ==
    IF out = Raise \/ out = None \/ out.n < PERIOD
    THEN None
    ELSE LET latest == Close(out, out.n)
             prev   == Close(out, out.n - PERIOD + 1)
         IN  IF prev = 0 THEN None ELSE Frac(latest - prev, prev)

\* debug_rps lines 42-59: the division of numpy floats by zero does not
\* raise, it gives inf or nan
DebugGain(out) ==
    IF out = Raise \/ out = None \/ out.n = 0 \/ out.n < PERIOD
    THEN None
    ELSE LET latest_close == Close(out, out.n)
             prev_close   == Close(out, out.n - PERIOD + 1)
         IN  IF prev_close = 0 THEN NaN
             ELSE Frac(latest_close - prev_close, prev_close)

\* round(gains.rank(pct=True) * 100, 2) of symbol c among the symbols of
\* gains, which holds a gain or NaN per symbol
PctRank(gains, c) ==
    LET mask == {k \in DOMAIN gains : gains[k] # NaN}
        less == Cardinality({k \in mask : GainLT(gains[k], gains[c])})
        same == Cardinality({k \in mask : GainEQ(gains[k], gains[c])})
    IN  IF c \notin mask THEN NaN
        ELSE Num(RoundHalfEven(10000 * (2 * less + same + 1),
                               2 * Cardinality(mask)))

\* calculate_rps_all(): a failed or empty listing and an empty results end
\* the run with RPS_DATA as it was.
CalculateRpsAll ==
    /\ \E out \in ListingOutcomes \cup {Raise} :
        IF out = Raise \/ out = None \/ DfEmpty(out)
        THEN UNCHANGED <<RPS_DATA, service_results, CACHE_FILE>>
        ELSE LET ranked == {c \in out.rows : ServiceGain(daily[c]) # None}
                 gains  == [c \in ranked |-> ServiceGain(daily[c])]
             IN  /\ service_results' = gains
                 /\ RPS_DATA' = IF ranked = {} THEN RPS_DATA
                                ELSE [c \in ranked |-> PctRank(gains, c)]
                 /\ IF ranked = {} THEN UNCHANGED CACHE_FILE
                    ELSE CACHE_FILE' \in DumpOutcomes(CACHE_FILE, RPS_DATA')
    /\ UNCHANGED <<daily, df_stocks, futures, results, df_res, rps_file,
                   top_file, job_pc, rps_debug>>
    /\ UNCHANGED fetcherVars
    /\ UNCHANGED <<writer, chip, runs>>

(***************************************************************************)
(* calculate_rps_all run by the scheduler and by trigger_update at once.   *)
(* Each run is three steps: the ranking of lines 36-100, which touches     *)
(* only locals, the assignment of line 103 and the dump of line 106.       *)
(***************************************************************************)
\* What ak.stock_zh_a_spot_em answers a run.
RunListings ==
    {Raise, None, Table(0, {}), Table(0, BatchCodes),
     Table(0, {C600519, C300750}), Table(0, {C000858})}

\* Lines 36-100: the listing, the loop over its symbols and the ranks; the
\* run returns at line 41 or 91, or ends in the except of line 109.
RunRank(r) ==
    /\ runs[r].pc = "idle"
    /\ \E out \in RunListings :
        IF out = Raise
        THEN runs' = [runs EXCEPT ![r] = [IdleRun EXCEPT !.end = "raised"]]
        ELSE IF out = None \/ DfEmpty(out)
        THEN runs' = [runs EXCEPT ![r] = [IdleRun EXCEPT !.end = "no_list"]]
        ELSE LET ranked == {c \in out.rows : ServiceGain(daily[c]) # None}
                 gains  == [c \in ranked |-> ServiceGain(daily[c])]
             IN  IF ranked = {}
                 THEN runs' = [runs EXCEPT ![r] =
                                  [IdleRun EXCEPT !.end = "no_results"]]
                 ELSE runs' = [runs EXCEPT ![r] =
                          [pc |-> "assign",
                           new_cache |-> [c \in ranked |-> PctRank(gains, c)],
                           end |-> "none", assigned |-> FALSE]]
    /\ UNCHANGED <<daily, df_stocks, futures, results, df_res, rps_file,
                   top_file, job_pc, RPS_DATA, service_results, rps_debug,
                   writer, chip, CACHE_FILE>>
    /\ UNCHANGED fetcherVars

\* Lines 102-103: RPS_DATA = new_cache
RunAssign(r) ==
    /\ runs[r].pc = "assign"
    /\ RPS_DATA' = runs[r].new_cache
    /\ runs' = [runs EXCEPT ![r].pc = "dump", ![r].assigned = TRUE]
    /\ UNCHANGED <<daily, df_stocks, futures, results, df_res, rps_file,
                   top_file, job_pc, service_results, rps_debug,
                   writer, chip, CACHE_FILE>>
    /\ UNCHANGED fetcherVars

\* Lines 106-110: joblib.dump(RPS_DATA, CACHE_FILE) writes the global as it
\* is now, or raises and the except of line 109 ends the run.
RunDump(r) ==
    /\ runs[r].pc = "dump"
    /\ CACHE_FILE' \in DumpOutcomes(CACHE_FILE, RPS_DATA)
    /\ runs' = [runs EXCEPT ![r].pc = "idle",
                            ![r].end = IF CACHE_FILE' = Dumped(RPS_DATA)
                                       THEN "done" ELSE "raised"]
    /\ UNCHANGED <<daily, df_stocks, futures, results, df_res, rps_file,
                   top_file, job_pc, RPS_DATA, service_results, rps_debug,
                   writer, chip>>
    /\ UNCHANGED fetcherVars

\* SpecOverlap: a scheduled and a manually triggered run of the standalone
\* ranking service, in every interleaving of their steps.
NextOverlap ==
    \/ \E r \in Runs : RunRank(r)
    \/ \E r \in Runs : RunAssign(r)
    \/ \E r \in Runs : RunDump(r)

SpecOverlap == InitBatch /\ [][NextOverlap]_vars

\* The symbols of target_stocks that the modelled market answers for; the
\* request for any other symbol of the list fails and the symbol is skipped.
DebugTargets == {C600519, C300750, C600036, C000858}

\* calculate_debug_rps()
CalculateDebugRps ==
    /\ LET ranked == {c \in DebugTargets : DebugGain(daily[c]) # None}
           gains  == [c \in ranked |-> DebugGain(daily[c])]
       IN  rps_debug' = [c \in ranked |->
                           [gain_rate |-> gains[c], rps_250 |-> PctRank(gains, c)]]
    /\ UNCHANGED <<daily, df_stocks, futures, results, df_res, rps_file,
                   top_file, job_pc, RPS_DATA, service_results>>
    /\ UNCHANGED fetcherVars
    /\ UNCHANGED sideVars

(***************************************************************************)
(* Specifications.  Spec: the snapshot provider and the session gate under *)
(* the fine clock; its actions neither read nor write the ranking          *)
(* attributes, so it starts from the constructions in which no ranking     *)
(* source answered.  SpecCache: every cached lookup under the coarse       *)
(* clock, all of it inside one trading session of a working day (so the    *)
(* calendar plays no part), with the ranking sources of CacheSources.      *)
(***************************************************************************)
Next ==
    \/ TickFine
    \/ IsTradingTimeCall
    \/ GetMarketSpotData
    \/ GetStockPrice

Spec == InitSnapshot /\ [][Next]_vars

NextCache ==
    \/ TickCoarse
    \/ GetMarketSpotData
    \/ GetStockIntraday(LookupCodes)
    \/ GetStockIndicators(LookupCodes, {}, CacheSources)

SpecCache == InitCache /\ [][NextCache]_vars

\* SpecLookup: the five public lookups at one instant, asked for a listed
\* and for an unlisted code.
AnyCodes == {Prefixed(C600000), C999999}

NextLookup ==
    \/ GetStockInfo(AnyCodes)
    \/ GetStockPrice
    \/ GetStockHistorical(AnyCodes)
    \/ GetStockIntraday(AnyCodes)
    \/ GetStockIndicators(AnyCodes, {MIN_HISTORY}, {NoRpsSource})

InitLookup == Constructed({"ok"}, {NoRpsSource})

SpecLookup == InitLookup /\ [][NextLookup]_vars

\* SpecConc: NumCallers threads inside _get_market_spot_data, under a clock
\* that steps by the session TTL.
InitConc == Constructed({"ok"}, {NoRpsSource})

NextConc ==
    \/ TickConc
    \/ \E th \in Callers : CallerCheck(th)
    \/ \E th \in Callers : CallerFetch(th)
    \/ \E th \in Callers : CallerStoreData(th)
    \/ \E th \in Callers : CallerStoreTime(th)
    \/ \E th \in Callers : CallerStoreDf(th)

SpecConc == InitConc /\ [][NextConc]_vars

\* SpecBatch: one run of generate_rps.main on each market of Markets, its
\* workers interleaved with its main thread.  SpecBatchLive adds that the
\* pool runs every task it was given and the main thread is never held up.
NextBatch ==
    \/ BatchStart
    \/ \E code \in BatchCodes : WorkerRun(code)
    \/ \E code \in BatchCodes : Collect(code)
    \/ Rank
    \/ OpenRpsFile
    \/ WriteRpsFile
    \/ OpenTopFile
    \/ WriteTopFile

SpecBatch == InitBatch /\ [][NextBatch]_vars

SpecBatchLive == InitBatch /\ [][NextBatch]_vars /\ WF_vars(NextBatch)

\* SpecHang: the batch run, a step of which is taken whenever one can be,
\* on the markets in which an upstream may never answer.
InitHang ==
    /\ NoFetcher
    /\ daily \in HangMarkets
    /\ df_stocks = None
    /\ futures = << >>
    /\ results = << >>
    /\ df_res = << >>
    /\ rps_file = Missing
    /\ top_file = Missing
    /\ job_pc = "idle"
    /\ RPS_DATA = << >>
    /\ service_results = << >>
    /\ rps_debug = << >>
    /\ SideIdle

SpecHang == InitHang /\ [][NextBatch]_vars /\ WF_vars(NextBatch)

\* SpecService: the ranking service and the demonstration on each market.
NextService ==
    \/ CalculateRpsAll
    \/ CalculateDebugRps

SpecService == InitBatch /\ [][NextService]_vars

(***************************************************************************)
(* The ranking artifacts: the two files of the output directory, their     *)
(* writer update_rps_rankings and their reader, the lazy reload behind     *)
(* get_rps_value and get_rps_top_list.  The files start absent or as       *)
(* generate_rps wrote them on the market `daily`.                          *)
(***************************************************************************)
\* The rows of the listing, in the order of the table.
BatchOrder == <<C600519, C300750, C600036, C000858, C600000>>

\* The results of a run of generate_rps whose futures complete in the order
\* of the listing.
BatchResults(market) ==
    LET all == [i \in DOMAIN BatchOrder |->
                   FetchAndCalculateRps(BatchOrder[i], market[BatchOrder[i]])]
    IN  SelectSeq(all, LAMBDA x : Truthy(x))

\* generate_rps lines 141-185 on those results: the two documents written
BatchFinal(market) == FinalList(RankAll(BatchResults(market)))

RpsMarket ==
    [c \in BatchCodes |->
        CASE c = C600519 -> HistA
          [] c = C300750 -> HistB
          [] c = C600036 -> HistC
          [] c = C000858 -> Daily(MIN_ROWS, 100, 1)
          [] c = C600000 -> Daily(121, 200, 1)]

\* What the two remote requests of a reload answer.
RemoteSources == [ra : {Raise, List(<< >>), RemoteAll}, rt : {Raise, RemoteTop}]

\* The sources of a reload: the remote answers r and the local files.
FileSource(r) ==
    [ra |-> r.ra, la |-> ReadFile(rps_file), rt |-> r.rt, lt |-> ReadFile(top_file)]

\* What a reload that made the requests io saw of its sources.
Observed(src, io) ==
    LET asked == {io[i] : i \in DOMAIN io}
    IN  [ra |-> IF "remote_all" \in asked THEN src.ra ELSE None,
         la |-> IF "local_all" \in asked THEN src.la ELSE None,
         rt |-> IF "remote_top" \in asked THEN src.rt ELSE None,
         lt |-> IF "local_top" \in asked THEN src.lt ELSE None]

\* The full set and the top set a fetcher holds.
Loaded(rd, rtop) == [t |-> "loaded", rd |-> rd, rtop |-> rtop]

RpsRows == {C600000, C000001}

InitRps ==
    /\ now = StartTime
    /\ akshare = TRUE
    /\ calendar = "ok"
    /\ \E out \in {Table(now, RpsRows)} :
        LET spot == SpotCallFrom(None, 0, None, now, out)
        IN  /\ market_spot_data = spot.data
            /\ market_spot_time = spot.time
            /\ stock_df = spot.ret
            /\ stock_list = LoadStockListFrom(<< >>, spot)
    /\ cache = << >>
    /\ daily = RpsMarket
    /\ \E written \in BOOLEAN :
        /\ rps_file = IF written THEN List(BatchFinal(daily)) ELSE Missing
        /\ top_file = IF written THEN TopData(BatchFinal(daily)) ELSE Missing
    /\ \E r \in RemoteSources :
        LET ld == LoadRpsFrom(<< >>, EmptyDict, 0, now, FileSource(r))
        IN  /\ rps_data = ld.rd
            /\ rps_top_data = ld.rtop
            /\ rps_cache_time = ld.rtime
    /\ callers = [th \in Callers |-> IdleCaller]
    /\ last = NoCall
    /\ df_stocks = None
    /\ futures = << >>
    /\ results = << >>
    /\ df_res = << >>
    /\ job_pc = "idle"
    /\ RPS_DATA = << >>
    /\ service_results = << >>
    /\ rps_debug = << >>
    /\ SideIdle

\* An instant more than an hour after the construction.
RpsInstants == {StartTime + RPS_CACHE_DURATION + 1}

TickRps == Tick(RpsInstants)

\* The instants around the end of the hour that follows the construction,
\* and around the end of the hours after it.
ReloadInstants ==
    {StartTime + k * RPS_CACHE_DURATION + d :
        k \in 1..(MaxRound + 2), d \in {-1, 0, 1}}

TickReload == Tick(ReloadInstants)

RpsCodes == {Prefixed(C600000)}

GetRpsValue ==
    \E code \in RpsCodes, r \in RemoteSources :
        LET src  == FileSource(r)
            call == RpsValueCall(code, src)
        IN  /\ rps_data' = call.rd
            /\ rps_top_data' = call.rtop
            /\ rps_cache_time' = call.rtime
            /\ last' = [op |-> "get_rps_value", code |-> code,
                        ret |-> call.ret, io |-> call.io,
                        pre |-> Loaded(rps_data, rps_top_data),
                        preTime |-> rps_cache_time,
                        out |-> Observed(src, call.io)]
            /\ UNCHANGED <<now, akshare, calendar, stock_list, stock_df,
                           market_spot_data, market_spot_time, cache, callers>>
            /\ UNCHANGED jobVars

TopPeriods == {50}

GetRpsTopList ==
    \E period \in TopPeriods, r \in RemoteSources :
        LET src  == FileSource(r)
            call == TopListCall(period, src)
        IN  /\ rps_data' = call.rd
            /\ rps_top_data' = call.rtop
            /\ rps_cache_time' = call.rtime
            /\ last' = [op |-> "get_rps_top_list", code |-> TopKey(period),
                        ret |-> call.ret, io |-> call.io,
                        pre |-> Loaded(rps_data, rps_top_data),
                        preTime |-> rps_cache_time,
                        out |-> Observed(src, call.io)]
            /\ UNCHANGED <<now, akshare, calendar, stock_list, stock_df,
                           market_spot_data, market_spot_time, cache, callers>>
            /\ UNCHANGED jobVars

\* The symbol universe a fetcher holds.
Universe(list) == [t |-> "universe", list |-> list]

\* What the three random draws made for one row can give, in hundredths.
DrawLow  == [RPS_50 |-> Num(9512), RPS_120 |-> Num(1507), RPS_250 |-> Num(6250)]
DrawHigh == [RPS_50 |-> Num(233), RPS_120 |-> Num(9875), RPS_250 |-> Num(4001)]

\* What the draws of one run can give on the rows of `rows`: every row
\* draws the same, or one row draws higher than the others.
RandomRuns(rows) ==
    {[c \in rows |-> DrawLow]}
    \cup {[c \in rows |-> IF c = top THEN DrawHigh ELSE DrawLow] : top \in rows}

\* df.iterrows(): the rows in the order of the table
Rows(df) ==
    CHOOSE s \in [1..Cardinality(df.rows) -> df.rows] :
        \A i, j \in 1..Cardinality(df.rows) : i # j => s[i] # s[j]

\* Variant: the results are written in the order of the table.
UpdateResults_Unsorted(df, draw) ==
    LET rows == Rows(df)
    IN  [i \in DOMAIN rows |->
            RpsItem(rows[i], draw[rows[i]].RPS_50, draw[rows[i]].RPS_120,
                    draw[rows[i]].RPS_250)]

\* Lines 764-789: one record per row of the table, its three ranks drawn at
\* random, then results.sort(key=RPS_120, reverse=True)
UpdateResults(df, draw) ==
    LET rows == Rows(df)
        recs == [i \in DOMAIN rows |->
                    RpsItem(rows[i], draw[rows[i]].RPS_50, draw[rows[i]].RPS_120,
                            draw[rows[i]].RPS_250)]
    IN  SortDesc(recs, [i \in DOMAIN recs |-> recs[i].RPS_120.v])

TOP_COUNT == 100

\* results[:100]
FirstRows(seq, n) == SubSeq(seq, 1, IF Len(seq) < n THEN Len(seq) ELSE n)

\* Lines 747-789: the table is loaded if the fetcher holds none, and the
\* results are drawn.
UpdateStart ==
    /\ writer.pc = "idle"
    /\ \E out \in SpotOutcomes(now) :
        LET reload == stock_df = None \/ DfEmpty(stock_df)
            spot   == SpotCall(out)
            df     == IF reload THEN spot.ret ELSE stock_df
        IN  /\ stock_df' = df
            /\ stock_list' = IF reload THEN LoadStockListFrom(stock_list, spot)
                              ELSE stock_list
            /\ market_spot_data' = IF reload THEN spot.data ELSE market_spot_data
            /\ market_spot_time' = IF reload THEN spot.time ELSE market_spot_time
            /\ IF df = None
               THEN UNCHANGED writer
               ELSE \E draw \in RandomRuns(df.rows) :
                       writer' = [pc |-> "open_all",
                                  results |-> List(UpdateResults(df, draw))]
            /\ last' = IF reload
                       THEN [op |-> "load_stock_list", code |-> << >>,
                             ret |-> spot.ret, io |-> SpotIo(spot),
                             pre |-> Universe(stock_list), preTime |-> 0,
                             out |-> IF spot.fetched THEN out ELSE None]
                       ELSE NoCall
    /\ UNCHANGED <<now, akshare, calendar, cache, rps_data, rps_top_data,
                   rps_cache_time, callers>>
    /\ UNCHANGED <<daily, df_stocks, futures, results, df_res, rps_file,
                   top_file, job_pc, RPS_DATA, service_results, rps_debug, chip,
                   CACHE_FILE, runs>>

\* Line 792: open(output_file, "w") truncates the full file.
UpdateOpenAll ==
    /\ writer.pc = "open_all"
    /\ rps_file' = Partial
    /\ writer' = [writer EXCEPT !.pc = "dump_all"]
    /\ UNCHANGED <<daily, df_stocks, futures, results, df_res, top_file,
                   job_pc, RPS_DATA, service_results, rps_debug, chip,
                   CACHE_FILE, runs>>
    /\ UNCHANGED fetcherVars

\* Lines 792-793: json.dump has written results and the file is closed.
UpdateDumpAll ==
    /\ writer.pc = "dump_all"
    /\ rps_file' = writer.results
    /\ writer' = [writer EXCEPT !.pc = "open_top"]
    /\ UNCHANGED <<daily, df_stocks, futures, results, df_res, top_file,
                   job_pc, RPS_DATA, service_results, rps_debug, chip,
                   CACHE_FILE, runs>>
    /\ UNCHANGED fetcherVars

\* Line 797: open(output_top, "w") truncates the top file.
UpdateOpenTop ==
    /\ writer.pc = "open_top"
    /\ top_file' = Partial
    /\ writer' = [writer EXCEPT !.pc = "dump_top"]
    /\ UNCHANGED <<daily, df_stocks, futures, results, df_res, rps_file,
                   job_pc, RPS_DATA, service_results, rps_debug, chip,
                   CACHE_FILE, runs>>
    /\ UNCHANGED fetcherVars

\* Lines 797-801: json.dump has written results[:100], a list, and the
\* call returns.
UpdateDumpTop ==
    /\ writer.pc = "dump_top"
    /\ top_file' = List(FirstRows(writer.results.items, TOP_COUNT))
    /\ writer' = [writer EXCEPT !.pc = "idle"]
    /\ UNCHANGED <<daily, df_stocks, futures, results, df_res, rps_file,
                   job_pc, RPS_DATA, service_results, rps_debug, chip,
                   CACHE_FILE, runs>>
    /\ UNCHANGED fetcherVars

\* SpecRps: a fetcher that looks rankings up while update_rps_rankings
\* rewrites the files.
NextRps ==
    \/ TickRps
    \/ GetRpsValue
    \/ GetRpsTopList
    \/ UpdateStart
    \/ UpdateOpenAll
    \/ UpdateDumpAll
    \/ UpdateOpenTop
    \/ UpdateDumpTop

SpecRps == InitRps /\ [][NextRps]_vars

\* SpecUniverse: the symbol universe and the snapshot of a fetcher, however
\* it was constructed, over calls of update_rps_rankings and lookups.
InitUniverse == Constructed({"ok"}, {NoRpsSource})

NextUniverse ==
    \/ TickCoarse
    \/ GetMarketSpotData
    \/ GetStockPrice
    \/ UpdateStart
    \/ UpdateOpenAll
    \/ UpdateDumpAll
    \/ UpdateOpenTop
    \/ UpdateDumpTop

SpecUniverse == InitUniverse /\ [][NextUniverse]_vars

\* SpecReload: the lookups over the hours, the files being left alone.
NextReload ==
    \/ TickReload
    \/ GetRpsValue
    \/ GetRpsTopList

SpecReload == InitRps /\ [][NextReload]_vars

(***************************************************************************)
(* The chip distribution of get_stock_indicators: the last 120 closes are  *)
(* cut into 10 intervals of equal width and the share of each interval is  *)
(* rounded to 4 places.  chip.k is the number of intervals the dict        *)
(* comprehension has gone through, chip.left the number of closes lying in *)
(* the intervals still to come and chip.total the sum of the shares so     *)
(* far, in ten-thousandths.                                                *)
(***************************************************************************)
CHIP_WINDOW == 120

CHIP_BINS == 10

\* Variant: the share is rounded to 3 places.
ChipFraction_3Places(count, n) == 10 * RoundHalfEven(1000 * count, n)

\* round(v, 4) of v = count / n, as value_counts(normalize=True) gives it
ChipFraction(count, n) == RoundHalfEven(10000 * count, n)

InitChips ==
    /\ NoFetcher
    /\ daily = RpsMarket
    /\ df_stocks = None
    /\ futures = << >>
    /\ results = << >>
    /\ df_res = << >>
    /\ rps_file = Missing
    /\ top_file = Missing
    /\ job_pc = "idle"
    /\ RPS_DATA = << >>
    /\ service_results = << >>
    /\ rps_debug = << >>
    /\ writer = IdleWriter
    /\ chip = [k |-> 0, left |-> CHIP_WINDOW, total |-> 0]
    /\ CACHE_FILE = Missing
    /\ runs = [r \in Runs |-> IdleRun]

\* Line 537: one more interval of hist_data, holding `count` of the closes;
\* the last interval holds all that are left, every close lying in one of
\* the intervals of pd.cut.
ChipBucket ==
    /\ chip.k < CHIP_BINS
    /\ \E count \in 0..chip.left :
        /\ chip.k + 1 = CHIP_BINS => count = chip.left
        /\ chip' = [k     |-> chip.k + 1,
                    left  |-> chip.left - count,
                    total |-> chip.total + ChipFraction(count, CHIP_WINDOW)]
    /\ UNCHANGED <<daily, df_stocks, futures, results, df_res, rps_file,
                   top_file, job_pc, RPS_DATA, service_results, rps_debug,
                   writer, CACHE_FILE, runs>>
    /\ UNCHANGED fetcherVars

\* SpecChips: every way 120 closes fall into the 10 intervals.
NextChips == ChipBucket

SpecChips == InitChips /\ [][NextChips]_vars

(***************************************************************************)
(* Properties of the snapshot provider and the session gate (Spec).        *)
(***************************************************************************)
\* The upstream request raised, or answered None or an empty table.
FetchFailed(out) == out = Raise \/ out = None \/ (out.t = "df" /\ out.rows = {})

\* C1: a _get_market_spot_data call that finds a stored snapshot past its
\* TTL and whose upstream request raises or answers None or an empty table
\* returns exactly the snapshot stored before the call, captured at T0, never
\* None, and leaves it stored with its capture time.
C1_StaleFallback ==
    (/\ last.op = "get_snapshot"
     /\ last.pre # None
     /\ last.io = <<"spot">>
     /\ FetchFailed(last.out))
    => /\ last.ret = last.pre
       /\ last.ret # None
       /\ last.ret.t = "df"
       /\ market_spot_data = last.pre
       /\ market_spot_time = last.preTime

C1_Witness ==
    /\ last.op = "get_snapshot"
    /\ last.pre # None
    /\ last.io = <<"spot">>
    /\ last.out = Raise
    /\ last.preTime < now
    /\ last.ret = last.pre

\* C2: with no snapshot stored, a call whose upstream request fails (or that
\* cannot ask because the data source is not installed) returns None and
\* leaves the snapshot absent; get_stock_price of a known symbol then returns
\* the empty dict, with no quote; and every quote that get_stock_price does
\* return is the cell of that symbol's row in the stored, fetched table.
C2_NoFabrication ==
    /\ (/\ last.op = "get_snapshot"
        /\ last.pre = None
        /\ (last.io = << >> \/ FetchFailed(last.out)))
       => (last.ret = None /\ market_spot_data = None)
    /\ (/\ last.op = "get_stock_price"
        /\ last.code \in DOMAIN stock_list
        /\ last.pre = None
        /\ (last.io = << >> \/ FetchFailed(last.out)))
       => (/\ last.ret = EmptyDict
           /\ "quote" \notin DOMAIN last.ret
           /\ market_spot_data = None)
    /\ (last.op = "get_stock_price" /\ "quote" \in DOMAIN last.ret)
       => (/\ market_spot_data # None
           /\ market_spot_data.id <= now
           /\ PureCode(last.code) \in market_spot_data.rows
           /\ last.ret.quote.current
                = <<market_spot_data.id, PureCode(last.code)>>)

C2_Witness ==
    /\ last.op = "get_stock_price"
    /\ last.code \in DOMAIN stock_list
    /\ last.pre = None
    /\ last.io = <<"spot">>
    /\ FetchFailed(last.out)
    /\ last.ret = EmptyDict
    /\ market_spot_data = None

\* C6: a _get_market_spot_data call that finds a stored snapshot of age a
\* returns it without asking the upstream iff a < 60 when the session gate
\* reports a session at the call, iff a < 72000 when it reports none; so in a
\* session a snapshot of age 60 or more is returned only after a failed
\* refresh.
C6_SessionTtl ==
    (last.op = "get_snapshot" /\ last.pre # None)
    => LET a       == now - last.preTime
           session == IsTradingTime(now, calendar)
           served  == last.io = << >> /\ last.ret = last.pre
       IN  /\ session => (served <=> a < 60)
           /\ ~session => (served <=> a < 72000)
           /\ (session /\ last.ret # None /\ now - last.ret.id >= 60)
              => (last.io = <<"spot">> /\ FetchFailed(last.out))

C6_Witness ==
    /\ last.op = "get_snapshot"
    /\ last.pre # None
    /\ ~IsTradingTime(now, calendar)
    /\ now - last.preTime = 72000
    /\ last.io = <<"spot">>
    /\ market_spot_time = now

\* C7: the result get_stock_price serves from a stale-fallback snapshot
\* captured at T0 carries T0 in its time field, not the instant of the lookup,
\* so that it differs from the result of a fresh fetch of the same rows.
C7_StaleLabelled ==
    (/\ last.op = "get_stock_price"
     /\ "quote" \in DOMAIN last.ret
     /\ last.io = <<"spot">>
     /\ FetchFailed(last.out))
    => last.ret.basic.timestamp = last.preTime

\* The clock time of instant ts, in seconds since midnight.
SecondOfDay(ts) == ts % DaySeconds

\* Monday to Friday, not a holiday of an answering calendar, and inside
\* 09:15:00-11:30:00 or 13:00:00-15:00:00, both ends included.
InSession(ts, cal) ==
    /\ Weekday(ts) \in 0..4
    /\ ~(cal = "ok" /\ DayOf(ts) \in HolidayDays)
    /\ \/ SecondOfDay(ts) \in (9 * 3600 + 15 * 60)..(11 * 3600 + 30 * 60)
       \/ SecondOfDay(ts) \in (13 * 3600)..(15 * 3600)

\* C8: _is_trading_time returns true exactly at the instants of a Monday to
\* Friday that is no holiday of the calendar whose clock time is within
\* 09:15-11:30 or 13:00-15:00, false at every other instant, and changes no
\* state.
C8_SessionGate ==
    /\ [](last.op = "is_trading_time" => last.ret = Bool(InSession(now, calendar)))
    /\ [][last'.op = "is_trading_time" =>
            UNCHANGED <<now, akshare, calendar, stock_list, stock_df,
                        market_spot_data, market_spot_time, cache, rps_data,
                        rps_top_data, rps_cache_time, callers>>]_vars

C8_Witness ==
    /\ last.op = "is_trading_time"
    /\ calendar = "ok"
    /\ last.ret = Bool(TRUE)
    /\ SecondOfDay(now) = 15 * 3600

\* C9: with the holiday calendar not installed, or raising when asked,
\* _is_trading_time returns (it does not raise) the weekday and time-window
\* check alone, at every instant.
C9_CalendarDegraded ==
    (last.op = "is_trading_time" /\ calendar \in {"absent", "raises"})
    => /\ last.ret.t = "bool"
       /\ last.ret.v =
            (/\ Weekday(now) \in 0..4
             /\ \/ SecondOfDay(now) \in (9 * 3600 + 15 * 60)..(11 * 3600 + 30 * 60)
                \/ SecondOfDay(now) \in (13 * 3600)..(15 * 3600))

C9_Witness ==
    /\ last.op = "is_trading_time"
    /\ calendar = "raises"
    /\ DayOf(now) \in HolidayDays
    /\ last.ret = Bool(TRUE)

(***************************************************************************)
(* Properties of the keyed cache and the cached lookups (SpecCache).       *)
(***************************************************************************)
\* The data type under which a lookup caches.
KindOf(op) == IF op = "get_stock_intraday" THEN "intraday" ELSE "indicators"

CachedLookup(op) == op \in {"get_stock_intraday", "get_stock_indicators"}

\* C3: for every key, _get_from_cache returns a payload only while the
\* current time is strictly before the entry's expire_at, and reports an entry
\* whose expire_at is at or before the current time as absent; a lookup
\* answers from the cache only in the first case.
C3_NoExpiredPayload ==
    /\ \A k \in DOMAIN cache :
        /\ GetFromCache(k[1], k[2]) # None => now < cache[k].expire_at
        /\ cache[k].expire_at <= now => GetFromCache(k[1], k[2]) = None
    /\ (CachedLookup(last.op) /\ akshare /\ last.io = << >>)
       => (last.pre # None /\ now < last.preTime /\ last.ret = last.pre)
    /\ (CachedLookup(last.op) /\ akshare /\ last.pre # None /\ last.preTime <= now)
       => last.io # << >>

C3_Witness ==
    /\ last.op = "get_stock_intraday"
    /\ last.pre # None
    /\ last.preTime = now
    /\ last.io = <<"intraday">>
    /\ \E k \in DOMAIN cache :
        cache[k].expire_at <= now /\ GetFromCache(k[1], k[2]) = None

\* C4: for the snapshot and for each key of the keyed cache, a lookup made
\* while the stored payload is inside its TTL window (a snapshot of age below
\* the TTL of the session state at the lookup; a cache entry, stored with
\* expire_at = store time + 300, before its expire_at) returns the stored
\* payload itself, asks no upstream and leaves what is stored untouched.
C4_RepeatLookup ==
    /\ (/\ last.op = "get_snapshot"
        /\ last.pre # None
        /\ now - last.preTime < (IF IsTradingTime(now, calendar) THEN 60 ELSE 72000))
       => (/\ last.ret = last.pre
           /\ last.io = << >>
           /\ market_spot_data = last.pre
           /\ market_spot_time = last.preTime)
    /\ (CachedLookup(last.op) /\ last.pre # None /\ now < last.preTime)
       => (/\ last.ret = last.pre
           /\ last.io = << >>
           /\ RawEntry(last.code, KindOf(last.op))
                = [data |-> last.pre, expire_at |-> last.preTime])
    /\ (/\ CachedLookup(last.op)
        /\ last.io # << >>
        /\ last.ret \notin {EmptyDict, ErrorResult, List(<< >>)})
       => RawEntry(last.code, KindOf(last.op))
            = [data |-> last.ret, expire_at |-> now + 300]

C4_Witness ==
    /\ last.op = "get_stock_indicators"
    /\ last.pre # None
    /\ now = last.preTime - 1
    /\ last.io = << >>
    /\ last.ret = last.pre
    /\ "indicators" \in DOMAIN last.ret

\* The history request answered nothing or fewer than 120 rows.
ShortHistory(out) == out = None \/ (out.t = "hist" /\ out.n < 120)

\* C10: when the fetched daily history has fewer than 120 rows, or none,
\* get_stock_indicators returns the empty dict, which is neither a bundle nor
\* the error result, makes no further request, and changes neither the cache
\* nor the ranking data.
C10_InsufficientHistory ==
    /\ []((/\ last.op = "get_stock_indicators"
           /\ last.io # << >>
           /\ ShortHistory(last.out))
          => (/\ last.ret = EmptyDict
              /\ last.ret # ErrorResult
              /\ DOMAIN last.ret \cap {"indicators", "chips", "capital", "error"} = {}
              /\ last.io = <<"hist">>))
    /\ [][(/\ last'.op = "get_stock_indicators"
           /\ last'.io # << >>
           /\ ShortHistory(last'.out))
          => UNCHANGED <<cache, rps_data, rps_top_data, rps_cache_time>>]_vars

C10_Witness ==
    /\ last.op = "get_stock_indicators"
    /\ last.out = Hist(now, 80)
    /\ last.ret = EmptyDict
    /\ last.io = <<"hist">>

(***************************************************************************)
(* Property of concurrent callers (SpecConc).                              *)
(***************************************************************************)
\* The caller has sent its upstream request and holds the table it returned.
Refreshing(th) == callers[th].pc \in {"store_data", "store_time", "store_df"}

\* C5: callers that look the snapshot up concurrently after its TTL has
\* elapsed cause one upstream request in total: no two callers both send a
\* request after finding the same stored snapshot expired.
C5_SingleRefresh ==
    \A a, b \in Callers :
        (/\ a # b
         /\ Refreshing(a)
         /\ Refreshing(b)
         /\ callers[a].seen >= 0)
        => callers[a].seen # callers[b].seen

(***************************************************************************)
(* Properties of the lookups asked for any code (SpecLookup).              *)
(***************************************************************************)
IsBundle(v) == v.t = "dict" /\ "indicators" \in DOMAIN v

\* C11: a bundle returned by get_stock_indicators carries, for every moving
\* average and for the 120-day high and low, either the value computed
\* from the fetched history or an absent marker, never another number, and
\* its capital flow is None.
C11_NoSubstitutedValue ==
    (last.op = "get_stock_indicators" /\ IsBundle(last.ret)) =>
        LET ind == last.ret.indicators
            id  == ind.history[1]
            n   == ind.history[2]
        IN  /\ \A w \in MA_WINDOWS :
                    ind.ma[w] \in {Computed("mean", w, id, n), None, NaN}
            /\ ind.high_120 \in {Computed("max", MIN_HISTORY, id, n), None, NaN}
            /\ ind.low_120 \in {Computed("min", MIN_HISTORY, id, n), None, NaN}
            /\ last.ret.capital.flow = None

LookupOps ==
    {"get_stock_info", "get_stock_price", "get_stock_historical",
     "get_stock_indicators", "get_stock_intraday"}

\* C12: every public lookup asked for a code that is not in stock_list
\* raises the rejection and has asked no upstream.
C12_UnknownRejected ==
    (last.op \in LookupOps /\ last.code \notin DOMAIN stock_list) =>
        (last.ret = ValueError /\ last.io = << >>)

(***************************************************************************)
(* Properties of the ranking batch (SpecBatch, SpecBatchLive) and of the   *)
(* ranking service (SpecService).                                          *)
(***************************************************************************)
\* main has ranked the results of a listing it could read.
Ranked ==
    /\ job_pc \in {"write_all", "dump_all", "write_top", "dump_top", "done"}
    /\ futures # << >>

\* The rows of df_res eligible for window p, and the gain of row i.
Eligible(p) == {i \in DOMAIN df_res : GainOf(df_res[i], p) # None}

GainAt(i, p) == GainOf(df_res[i], p)

\* The number of eligible rows whose gain is at most that of row i.
AtMost(i, p) ==
    Cardinality({j \in Eligible(p) : GainLE(GainAt(j, p), GainAt(i, p))})

\* C13: in every window with an eligible population of N >= 1 rows, every
\* row holding the largest gain is ranked 100.0 and every row holding the
\* smallest gain is ranked round(100 / N, 2), ties included.
C13_ExtremeRanks ==
    Ranked =>
        \A p \in Windows : \A i \in Eligible(p) :
            /\ (\A j \in Eligible(p) : GainLE(GainAt(j, p), GainAt(i, p)))
                => RpsOf(df_res[i], p) = Num(10000)
            /\ (\A j \in Eligible(p) : GainLE(GainAt(i, p), GainAt(j, p)))
                => RpsOf(df_res[i], p)
                     = Num(RoundHalfEven(10000, Cardinality(Eligible(p))))

\* C14: the rank written for an eligible row is
\* round(100 * |{eligible rows with gain <= its gain}| / N, 2), so that rows
\* with equal gains all get the rank of the highest position among them.
C14_PercentileRank ==
    Ranked =>
        \A p \in Windows : \A i \in Eligible(p) :
            RpsOf(df_res[i], p)
              = Num(RoundHalfEven(10000 * AtMost(i, p), Cardinality(Eligible(p))))

DistinctGains(p) ==
    \A i, j \in Eligible(p) : i # j => ~GainEQ(GainAt(i, p), GainAt(j, p))

\* C15: when the N eligible gains of a window are pairwise distinct, the row
\* with the k-th smallest gain is ranked round(100 * k / N, 2); three rows
\* with gains 20%, 5% and -10% are ranked 100.0, 66.67 and 33.33.
C15_DistinctGains ==
    Ranked =>
        \A p \in Windows :
            /\ DistinctGains(p) =>
                \A i \in Eligible(p) :
                    RpsOf(df_res[i], p)
                      = Num(RoundHalfEven(10000 * AtMost(i, p),
                                          Cardinality(Eligible(p))))
            /\ \A a, b, c \in Eligible(p) :
                (/\ Cardinality(Eligible(p)) = 3
                 /\ GainEQ(GainAt(a, p), Frac(1, 5))
                 /\ GainEQ(GainAt(b, p), Frac(1, 20))
                 /\ GainEQ(GainAt(c, p), Frac(-1, 10)))
                => /\ RpsOf(df_res[a], p) = Num(10000)
                   /\ RpsOf(df_res[b], p) = Num(6667)
                   /\ RpsOf(df_res[c], p) = Num(3333)

C15_Witness ==
    /\ Ranked
    /\ Cardinality(Eligible(250)) = 3
    /\ DistinctGains(250)
    /\ \E a, b, c \in Eligible(250) :
        /\ GainEQ(GainAt(a, 250), Frac(1, 5))
        /\ GainEQ(GainAt(b, 250), Frac(1, 20))
        /\ GainEQ(GainAt(c, 250), Frac(-1, 10))
        /\ RpsOf(df_res[a], 250) = Num(10000)
        /\ RpsOf(df_res[b], 250) = Num(6667)
        /\ RpsOf(df_res[c], 250) = Num(3333)
    /\ Cardinality(Eligible(50)) = 5
    /\ DistinctGains(50)

\* The number of closes of the history fetched for row i.
Closes(i) == daily[df_res[i].code].n

\* The rows whose history is longer than p closes.
LongerThan(p) == {i \in DOMAIN df_res : Closes(i) > p}

\* C16: a row is ranked in window p iff its history has more than p closes,
\* each window on its own: its rank is None in the windows it is too short
\* for, and in the others it is the rank among the rows longer than p only.
C16_PartialEligibility ==
    Ranked =>
        \A p \in Windows : \A i \in DOMAIN df_res :
            /\ RpsOf(df_res[i], p) # None <=> Closes(i) > p
            /\ Closes(i) > p =>
                LET pop  == LongerThan(p)
                    less == Cardinality({j \in pop :
                                GainLT(GainAt(j, p), GainAt(i, p))})
                    same == Cardinality({j \in pop :
                                GainEQ(GainAt(j, p), GainAt(i, p))})
                IN  RpsOf(df_res[i], p)
                      = Num(RoundHalfEven(10000 * (2 * less + same + 1),
                                          2 * Cardinality(pop)))

C16_Witness ==
    /\ Ranked
    /\ \E i, j \in DOMAIN df_res :
        /\ Closes(i) = 121
        /\ df_res[i].RPS_50 # None
        /\ df_res[i].RPS_120 # None
        /\ df_res[i].RPS_250 = None
        /\ Closes(j) = MIN_ROWS
        /\ df_res[j].RPS_50 = None
        /\ df_res[j].RPS_120 = None
    /\ Cardinality(LongerThan(250)) = 3
    /\ Cardinality(LongerThan(120)) = 4
    /\ Cardinality(DOMAIN df_res) = 5

\* C17: the ranking service and the demonstration take the gain of the
\* 250-session window as the batch does: from the last close and the close
\* 250 rows before it, for the symbols whose history has more than 250 rows
\* and for no other symbol.
C17_SameReference ==
    /\ \A c \in DOMAIN service_results :
            service_results[c] = GetGain(daily[c], PERIOD)
    /\ \A c \in DOMAIN rps_debug :
            rps_debug[c].gain_rate = GetGain(daily[c], PERIOD)

\* The history request of symbol c returned at least 50 rows.
Fetched(c) == daily[c].t = "daily" /\ daily[c].n >= MIN_ROWS

\* C18: a run whose listing succeeded ends with both documents written,
\* whatever the history requests did, and the full document holds exactly
\* one record per symbol whose history request returned at least 50 rows.
C18_PartialFailure ==
    /\ []((job_pc = "done" /\ futures # << >>) =>
            /\ rps_file.t = "list"
            /\ top_file.t = "dict"
            /\ {rps_file.items[i].code : i \in DOMAIN rps_file.items}
                 = {c \in DOMAIN futures : Fetched(c)}
            /\ Len(rps_file.items)
                 = Cardinality({c \in DOMAIN futures : Fetched(c)}))
    /\ (job_pc = "pool") ~> (job_pc = "done")

C18_Witness ==
    /\ job_pc = "done"
    /\ futures # << >>
    /\ \E c, d \in DOMAIN futures : daily[c] = Raise /\ daily[d] = None
    /\ Len(rps_file.items) = 3

Codes(rows) == {rows[i].code : i \in DOMAIN rows}

\* C19: the ranking starts only when every submitted task has finished and
\* was handed over, it ranks exactly the results handed over, and from then
\* on neither the results nor the ranked population change.
C19_Barrier ==
    /\ [](Ranked => \A c \in DOMAIN futures : futures[c].st = "collected")
    /\ [][(job_pc = "pool" /\ job_pc' # "pool")
            => /\ \A c \in DOMAIN futures : futures[c].st = "collected"
               /\ Codes(df_res') = Codes(results)
               /\ Len(df_res') = Len(results)]_vars
    /\ [][Ranked => /\ results' = results
                    /\ futures' = futures
                    /\ df_res' = df_res]_vars

C19_Witness ==
    /\ job_pc = "write_all"
    /\ \E c, d \in DOMAIN futures :
        /\ futures[c].res = None
        /\ futures[d].res # None
    /\ Len(df_res) = 4

\* top_data[f"top_{p}"]
TopItems(p) == CASE p = 50 -> top_file.top_50.items
                 [] p = 120 -> top_file.top_120.items
                 [] p = 250 -> top_file.top_250.items

\* C20 as claimed: every list top_N holds only records ranked 90 or more in
\* window N, each ranked strictly higher than the record after it.
C20_StrictlyDescending ==
    top_file.t = "dict" =>
        \A p \in Windows :
            /\ \A i \in DOMAIN TopItems(p) :
                    RpsOf(TopItems(p)[i], p).v >= TOP_RPS * 100
            /\ \A i \in 1..(Len(TopItems(p)) - 1) :
                    RpsOf(TopItems(p)[i], p).v > RpsOf(TopItems(p)[i + 1], p).v

\* C20 as amended: every list top_N holds only records ranked 90 or more in
\* window N, none ranked lower than the record after it.
C20_TopLists ==
    top_file.t = "dict" =>
        \A p \in Windows :
            /\ \A i \in DOMAIN TopItems(p) :
                /\ RpsOf(TopItems(p)[i], p) # None
                /\ RpsOf(TopItems(p)[i], p).v >= TOP_RPS * 100
            /\ \A i \in 1..(Len(TopItems(p)) - 1) :
                    RpsOf(TopItems(p)[i], p).v >= RpsOf(TopItems(p)[i + 1], p).v

C20_Witness ==
    /\ top_file.t = "dict"
    /\ Len(TopItems(50)) = 2
    /\ RpsOf(TopItems(50)[1], 50) = Num(TOP_RPS * 100)
    /\ Len(TopItems(250)) = 0
    /\ Len(rps_file.items) = 5

(***************************************************************************)
(* Properties of the ranking artifacts and of their reader (SpecRps,       *)
(* SpecReload).                                                            *)
(***************************************************************************)
\* C21: the records of the full file, whoever wrote it, are in the order of
\* their 120-session rank, none ranked lower than the record after it, and
\* every record without a 120-session rank comes after every record with
\* one.
C21_FullOrder ==
    rps_file.t = "list" =>
        \A i, j \in DOMAIN rps_file.items :
            i < j =>
                LET a == rps_file.items[i].RPS_120
                    b == rps_file.items[j].RPS_120
                IN  /\ a = None => b = None
                    /\ (a # None /\ b # None) => a.v >= b.v

\* update_rps_rankings has written a full file whose first record is not
\* the first row of the table.
C21_Witness ==
    /\ writer.pc = "open_top"
    /\ rps_file = writer.results
    /\ Len(rps_file.items) = 2
    /\ rps_file.items[1].RPS_120.v > rps_file.items[2].RPS_120.v
    /\ rps_file.items[1].code # Rows(stock_df)[1]

Lookups == {"get_rps_value", "get_rps_top_list"}

\* The sources the last call asked.
Asked == {last.io[i] : i \in DOMAIN last.io}

\* The last call was a lookup that reloaded.
Reloaded == last.op \in Lookups /\ last.io # << >>

\* C22: a lookup that reads a local ranking file while a writer rewrites it
\* reads a complete document, the one before or the one after: the read
\* never fails on an emptied or half-written file.
C22_AtomicReplace ==
    Reloaded =>
        /\ "local_all" \in Asked => last.out.la # Raise
        /\ "local_top" \in Asked => last.out.lt # Raise

\* The three windows' keys.
TopKeys == {TopKey(p) : p \in Windows}

\* C23: a complete full file is a list of records and a complete top file
\* is a map with a list under each of top_50, top_120 and top_250, and
\* get_rps_top_list returns a list, never an error.
C23_ArtifactShapes ==
    /\ rps_file \notin {Missing, Partial} => rps_file.t = "list"
    /\ top_file \notin {Missing, Partial} =>
            /\ top_file.t = "dict"
            /\ TopKeys \subseteq DOMAIN top_file
    /\ last.op = "get_rps_top_list" => last.ret.t = "list"

\* C24: a run of update_rps_rankings over the table of an earlier run
\* produces the ranks of that run.
C24_Reproducible ==
    [][(/\ writer.pc = "idle"
        /\ writer.results # None
        /\ writer'.pc = "open_all"
        /\ stock_df' = stock_df)
       => writer'.results = writer.results]_vars

FromMemory(rd, rtop) ==
    IF last.op = "get_rps_value"
    THEN IF PureCode(last.code) \in DOMAIN rd THEN rd[PureCode(last.code)]
         ELSE EmptyDict
    ELSE IF last.code \in DOMAIN rtop THEN rtop[last.code] ELSE List(<< >>)

\* C26: a lookup made less than 3600 seconds after the load that stamped
\* rps_cache_time = T, on a fetcher that holds a full set, asks no source,
\* changes nothing and answers from the sets held; a lookup made more than
\* 3600 seconds after T attempts a reload, the remote source first.
C26_FreshWindow ==
    last.op \in Lookups =>
        /\ (DOMAIN last.pre.rd # {}
             /\ now - last.preTime < RPS_CACHE_DURATION) =>
                /\ last.io = << >>
                /\ rps_data = last.pre.rd
                /\ rps_top_data = last.pre.rtop
                /\ rps_cache_time = last.preTime
                /\ last.ret = FromMemory(last.pre.rd, last.pre.rtop)
        /\ now - last.preTime > RPS_CACHE_DURATION =>
                /\ last.io # << >>
                /\ last.io[1] = "remote_all"

\* A lookup one second before the hour is over was answered from memory,
\* and the fetcher holds a full set.
C26_Witness ==
    /\ last.op = "get_rps_value"
    /\ DOMAIN last.pre.rd # {}
    /\ last.preTime = StartTime
    /\ now = StartTime + RPS_CACHE_DURATION - 1
    /\ last.io = << >>
    /\ last.ret.t = "dict"
    /\ Truthy(last.ret)

\* The reload found neither source of either artifact, or raised on the way.
ReloadFailed ==
    \/ /\ last.out.ra = Raise
       /\ last.out.la \in {None, Raise}
       /\ last.out.rt \in {None, Raise}
       /\ last.out.lt \in {None, Raise}
    \/ last.out.la = Raise
    \/ last.out.lt = Raise

\* C27: a reload that fails, for both sources of both artifacts or by
\* raising on the way, on a fetcher that holds a full set loaded before,
\* leaves the full set and the top set as they were.
C27_FailedReloadKeeps ==
    (Reloaded /\ ReloadFailed /\ DOMAIN last.pre.rd # {}) =>
        /\ rps_data = last.pre.rd
        /\ rps_top_data = last.pre.rtop

(***************************************************************************)
(* Properties of the chip distribution (SpecChips).                        *)
(***************************************************************************)
\* C28: the chip distribution of 120 closes has exactly 10 buckets, every
\* close is in one of them, and the shares, each rounded to 4 places, sum
\* to 1.0 within 0.001 (10 ten-thousandths), however the closes fall into
\* the buckets.
C28_SharesSumToOne ==
    /\ chip.k <= CHIP_BINS
    /\ chip.k = CHIP_BINS =>
            /\ chip.left = 0
            /\ chip.total - 10000 <= 10
            /\ 10000 - chip.total <= 10

\* All 10 buckets were gone through and the rounded shares sum to 1.0003.
C28_Witness ==
    /\ chip.k = CHIP_BINS
    /\ chip.left = 0
    /\ chip.total = 10003

(***************************************************************************)
(* Properties of the keyed cache's put (SpecCache).                        *)
(***************************************************************************)
\* C29: an entry expires at the instant of its store plus the time its
\* caller gives it: the intraday series, stored for one minute, expires at
\* t + 60, and not together with an indicator bundle stored at the same
\* instant t for CACHE_DURATION.
C29_CallerTtl ==
    (last.op = "get_stock_intraday" /\ last.io # << >> /\ Truthy(last.ret)) =>
        /\ RawEntry(last.code, "intraday").data = last.ret
        /\ RawEntry(last.code, "intraday").expire_at = now + INTRADAY_TTL

(***************************************************************************)
(* Properties of the outbound requests (SpecHang).                         *)
(***************************************************************************)
\* C30: a batch run that has submitted its tasks comes to its end, even
\* when an upstream never answers a request.
C30_Terminates == (job_pc = "pool") ~> (job_pc = "done")

(***************************************************************************)
(* Properties of the symbol universe and of the stored snapshot            *)
(* (SpecUniverse, SpecConc, Spec).                                         *)
(***************************************************************************)
\* C31: after a load of the symbol universe the universe holds exactly the
\* symbols of the source just loaded, every symbol of the snapshot under
\* its bare and its market-prefixed code, or the fallback list, and no
\* entry of an earlier load.
C31_WholesaleReload ==
    last.op = "load_stock_list" =>
        stock_list = IF last.ret = None \/ DfEmpty(last.ret)
                     THEN FallbackStocks
                     ELSE StockEntries(last.ret)

\* A table with at least one row.
IsTable(df) == df # None /\ df.t = "df" /\ ~DfEmpty(df)

\* C32: a stored snapshot is a non-empty table; once one is stored, every
\* step leaves one stored, does not take the capture time back, and changes
\* the snapshot only to a non-empty table.
C32_SnapshotKept ==
    [][/\ market_spot_data' # None => IsTable(market_spot_data')
       /\ market_spot_data # None =>
            /\ market_spot_data' # None
            /\ market_spot_time' >= market_spot_time
            /\ market_spot_data' # market_spot_data =>
                    IsTable(market_spot_data')]_vars

\* No caller is inside _get_market_spot_data.
Quiescent == \A th \in Callers : callers[th].pc = "idle"

\* C34: whenever a snapshot is stored and no call is under way, stock_df is
\* the stored snapshot.
C34_SameTable ==
    (Quiescent /\ market_spot_data # None) => stock_df = market_spot_data

\* The last call was a snapshot refresh that failed: the upstream was asked
\* and raised, or answered nothing or an empty table.
FailedRefresh ==
    /\ last.op = "get_snapshot"
    /\ last.io = <<"spot">>
    /\ ~IsTable(last.out)

\* A get_snapshot call made at instant ts on the present state asks the
\* upstream.
Reattempts(ts) ==
    SpotCallFrom(market_spot_data, market_spot_time, stock_df, ts, Raise).fetched

\* C33 as stated: a failed refresh leaves the snapshot and its capture time
\* as they were, and a get_snapshot call at any later instant asks the
\* upstream again.
C33_AlwaysReattempts ==
    FailedRefresh =>
        /\ market_spot_data = last.pre
        /\ market_spot_time = last.preTime
        /\ \A ts \in Instants : ts >= now => Reattempts(ts)

\* C33, amended: a failed refresh leaves the snapshot and its capture time
\* as they were, and a get_snapshot call at a later instant asks the upstream
\* again unless the refresh failed inside a trading session and the later
\* instant lies outside one.
C33_FailedRefreshKeeps ==
    FailedRefresh =>
        /\ market_spot_data = last.pre
        /\ market_spot_time = last.preTime
        /\ \A ts \in Instants :
                (/\ ts >= now
                 /\ IsTradingTime(now, calendar) => IsTradingTime(ts, calendar))
                => Reattempts(ts)

C33_Witness ==
    /\ FailedRefresh
    /\ market_spot_data # None
    /\ IsTradingTime(now, calendar)
    /\ \E ts \in Instants : ts > now /\ IsTradingTime(ts, calendar)

\* C35: every symbol with a row in the stored snapshot is a key of the symbol
\* universe, and get_stock_price does not reject a symbol that had a row in
\* the snapshot stored when it was called.
C35_SnapshotSymbolsKnown ==
    /\ market_spot_data # None => market_spot_data.rows \subseteq DOMAIN stock_list
    /\ (/\ last.op = "get_stock_price"
        /\ last.pre # None
        /\ last.code \in last.pre.rows) => last.ret # ValueError

(***************************************************************************)
(* Properties of the keyed cache (SpecCache).                              *)
(***************************************************************************)
\* The results that report a failure: insufficient data, the error result,
\* the empty intraday series.
FailureResults == {EmptyDict, ErrorResult, List(<< >>)}

\* The data kind a cached lookup stores under.
DataType(op) == IF op = "get_stock_indicators" THEN "indicators" ELSE "intraday"

\* The last call was a cached lookup that asked the upstream and failed.
FailedLookup ==
    /\ last.op \in {"get_stock_indicators", "get_stock_intraday"}
    /\ last.io # << >>
    /\ last.ret \in FailureResults

\* C36: no entry of the keyed cache holds a failure result; a lookup that
\* asked the upstream and failed left the entry of its key as it was, and the
\* same lookup made again asks the upstream again.
C36_OnlySuccessCached ==
    /\ \A k \in DOMAIN cache : cache[k].data \notin FailureResults
    /\ FailedLookup =>
        /\ RawEntry(last.code, DataType(last.op)) =
                [data |-> last.pre, expire_at |-> last.preTime]
        /\ GetFromCache(last.code, DataType(last.op)) = None
        /\ last.op = "get_stock_intraday" =>
                IntradayCall(last.code, Raise).io = <<"intraday">>
        /\ last.op = "get_stock_indicators" =>
                \A src \in CacheSources :
                    IndicatorsCall(last.code, Raise, src).io = <<"hist">>

C36_Witness ==
    /\ FailedLookup
    /\ last.op = "get_stock_indicators"
    /\ last.ret = ErrorResult
    /\ last.pre # None

(***************************************************************************)
(* Properties of the loaded ranking set (SpecRps).                         *)
(***************************************************************************)
\* The full document the last reload loaded: the remote one when the remote
\* request answered a list, else what the local file gave.
LoadedList == IF last.out.ra.t = "list" THEN last.out.ra ELSE last.out.la

HasItems(v) == v.t = "list" /\ v.items # << >>

\* C37: a reload that loaded a list with items replaces the full set by that
\* list indexed by code; any other reload leaves the full set as it was; a
\* full set that is not empty is not empty after any step, and changes only
\* in a reload.
C37_FullSetKept ==
    /\ [](Reloaded =>
            IF HasItems(LoadedList)
            THEN /\ rps_data = IndexByCode(LoadedList.items)
                 /\ DOMAIN rps_data # {}
            ELSE rps_data = last.pre.rd)
    /\ [][/\ DOMAIN rps_data # {} => DOMAIN rps_data' # {}
          /\ rps_data' # rps_data =>
                last'.op \in Lookups /\ last'.io # << >>]_vars

C37_Witness ==
    /\ Reloaded
    /\ DOMAIN last.pre.rd # {}
    /\ last.out.ra = List(<< >>)
    /\ rps_data = last.pre.rd

(***************************************************************************)
(* Properties of the persisted top lists (SpecBatch).                      *)
(***************************************************************************)
\* The records of the full file ranked 90 or more in window p.
Qualifying(p) ==
    {x \in {rps_file.items[i] : i \in DOMAIN rps_file.items} :
        RpsOf(x, p) # None /\ RpsOf(x, p).v >= TOP_RPS * 100}

\* C38: when a run has written both files, the list top_N holds exactly the
\* records of the full file whose RPS_N is 90 or more, each of them once, and
\* no record without an RPS_N.
C38_ExactTop ==
    (job_pc = "done" /\ top_file.t = "dict") =>
        \A p \in Windows :
            /\ {TopItems(p)[i] : i \in DOMAIN TopItems(p)} = Qualifying(p)
            /\ Len(TopItems(p)) = Cardinality(Qualifying(p))
            /\ \A i \in DOMAIN TopItems(p) : RpsOf(TopItems(p)[i], p) # None

C38_Witness ==
    /\ job_pc = "done"
    /\ top_file.t = "dict"
    /\ Cardinality(Qualifying(50)) = 2
    /\ \E i \in DOMAIN rps_file.items : RpsOf(rps_file.items[i], 250) = None
    /\ \E i \in DOMAIN rps_file.items :
            /\ RpsOf(rps_file.items[i], 50) # None
            /\ RpsOf(rps_file.items[i], 50).v < TOP_RPS * 100

(***************************************************************************)
(* Properties of the standalone ranking service (SpecOverlap).             *)
(***************************************************************************)
\* The ways a run ends without having ranked and saved: no listing, no
\* symbol ranked, an exception.
FailedEnds == {"no_list", "no_results", "raised"}

\* C39: a run that ended without a listing, without a ranked symbol or in
\* an exception has not assigned RPS_DATA, and no step of such a run changes
\* the disk cache; RPS_DATA changes only in the assignment of a run, to the
\* ranks that run computed for at least one symbol.
C39_FailedRunKeeps ==
    /\ [](\A r \in Runs : runs[r].end \in FailedEnds => ~runs[r].assigned)
    /\ [][/\ RPS_DATA' # RPS_DATA =>
                \E r \in Runs : /\ runs[r].pc = "assign"
                                /\ runs'[r].pc = "dump"
                                /\ DOMAIN runs[r].new_cache # {}
                                /\ RPS_DATA' = runs[r].new_cache
          /\ CACHE_FILE' # CACHE_FILE =>
                \E r \in Runs : runs[r].pc = "dump" /\ runs'[r].end = "done"]_vars

====
